---- MODULE Spec2Model ----
(***************************************************************************)
(* ODIN project integrity / backup / rollback / instance-lock subsystem.   *)
(*                                                                         *)
(* Part 1: the instance lock (odin/instance.py, odin/checkpoint.py).       *)
(* Part 2: the backup stores and their rollbacks (odin/backup.py,          *)
(*         agents/system/checkpoint.py, odin/rollback.py).                 *)
(* Part 3: the command line front end (odin/cli.py).                       *)
(* SpecLock, SpecStore and SpecCli exercise the three parts.               *)
(***************************************************************************)
EXTENDS Integers, Sequences, FiniteSets, TLC

VARIABLES
    lockFile,   \* content of .odin/odin.lock: <<>> absent, <<"pid", n>>, <<"locked">>
    fileLock,   \* holder of .odin/odin.lock.filelock (0: free)
    alive,      \* alive[p]: process p is running
    pc,         \* pc[p]: position of process p inside a lock operation / command
    holds,      \* holds[p]: p's last acquisition reported success and p has not released
    res,        \* res[p]: what p's last call returned
    cmd,        \* cmd[p]: the CLI command process p is running ("none": a bare API call)
    odinDir,    \* the .odin directory exists
    auditReport,\* number of times .odin/audit_report.md was written
    impl,       \* which backup implementation this run exercises
    baseline,   \* IntegrityMonitor._baseline: the stored snapshot, Null before a capture
    handlers,   \* MessageBus._handlers: key -> list of handlers, a key is <<channel, type>>
    subscriptions, \* the subscribe calls made so far: <<channel, type or "*", handler>>
    now,        \* wall clock: t in ticks, n the number of clock readings that named a backup
    tree,       \* working tree: tree[path] = content, 0 when the file is absent
    ckpt,       \* .odin/AI_CHECKPOINT.json
    logLen,     \* number of entries in .odin/learning_log.json
    bdir,       \* .odin/backups of SmartBackupManager: file name -> content
    agentDir,   \* backup_dir of CheckpointAgent: checkpoint id -> directory
    legacyDir,  \* latest backup directory read by restore_from_backup
    opKind,     \* operation in flight: "none", "backup", "rollback"
    opPc,       \* its position
    opCaller,   \* the process that runs it (0: the library is called directly)
    opRec,      \* the record create_backup / _create_checkpoint is building
    opTarget,   \* the record rollback loaded
    opSafety,   \* rollback: id of the safety backup, once create_backup returned it
    opTodo,     \* files a copy loop still has to visit
    opErrs,     \* CheckpointAgent._rollback: errors collected so far
    result      \* what the last finished operation returned

lockVars == <<lockFile, fileLock, alive, pc, holds, res>>
cliVars == <<cmd, odinDir, auditReport>>
storeVars == <<impl, handlers, subscriptions, baseline, now, tree, ckpt, logLen, bdir, agentDir, legacyDir>>
opVars == <<opKind, opPc, opCaller, opRec, opTarget, opSafety, opTodo, opErrs, result>>
vars == <<lockVars, cliVars, storeVars, opVars>>

\* the empty handler table
NoHandlers == <<>>

-----------------------------------------------------------------------------
(* Bounds of the model *)
NProcs == 2
MaxNow == 2
MaxOps == 2
TicksPerSecond == 2
MaxContent == 2
MaxDays == 3
MaxLines == 2
HeadContent == 1
MaxSubs == 2

Procs == 1..NProcs
\* pid of a live process that is not this tool (a recycled pid)
Foreign == NProcs + 1
\* the caller of a library call made outside any modelled process
NoProc == CHOOSE n \in 0..NProcs : n \notin Procs

NoFile == <<>>
LockedText == <<"locked">>
PidText(p) == <<"pid", p>>

\* os.getpid() written with str(), read back with int(); int("locked") raises ValueError
IsPidText(t) == Len(t) = 2
ParsePid(t) == t[2]

PidExists(al, q) == q = Foreign \/ al[q]
\* 'odin' in cmdline.lower()
CmdlineHasOdin(q) == q \in Procs

(* AI_CHECKPOINT.json contents *)
MissingCkpt == [valid |-> FALSE, ref |-> -1, act |-> "missing"]
TruncatedCkpt == [valid |-> FALSE, ref |-> -1, act |-> "truncated"]
ScaffoldCkpt == [valid |-> TRUE, ref |-> -1, act |-> "initial_state"]
DefaultCkpt == [valid |-> TRUE, ref |-> -1, act |-> "backup_creation"]

Null == [none |-> TRUE]
NoResult == [kind |-> "none", status |-> "none", stage |-> "idle", ts |-> -1, safety |-> -1]

-----------------------------------------------------------------------------
(* Part 1: instance lock *)

(* InstanceManager.is_odin_running: the answer and the lock file it leaves *)
IsOdinRunning(lf, al, denied) ==
    IF lf = NoFile THEN [running |-> FALSE, file |-> lf]
    ELSE IF IsPidText(lf) /\ PidExists(al, ParsePid(lf)) /\ ~denied
              /\ CmdlineHasOdin(ParsePid(lf))
         THEN [running |-> TRUE, file |-> lf]
         ELSE [running |-> FALSE, file |-> NoFile]   \* stale: unlink

\* psutil.AccessDenied can only be raised for a process that exists
DeniedChoices(lf, al) ==
    IF IsPidText(lf) /\ PidExists(al, ParsePid(lf)) THEN BOOLEAN ELSE {FALSE}

Idle(p) == alive[p] /\ pc[p] = "idle" /\ cmd[p] = "none"

\* where a process goes when ensure_single_instance returns
AfterEsi(p) == IF cmd[p] = "init" THEN "init_scaffold" ELSE "idle"

\* a killed process takes the operation it runs down with it
KillOp(victim) ==
    IF opKind # "none" /\ opCaller = victim
    THEN /\ opKind' = "none" /\ opPc' = "idle" /\ opCaller' = NoProc
         /\ result' = [kind |-> opKind, status |-> "interrupted", stage |-> opPc,
                       ts |-> IF opRec = Null THEN -1 ELSE opRec.ts, safety |-> opSafety]
         /\ opRec' = Null /\ opTarget' = Null /\ opSafety' = -1
         /\ opTodo' = <<>> /\ opErrs' = {}
    ELSE UNCHANGED opVars

(* InstanceManager.acquire_lock: mkdir, then entering `with self.lock` *)
AcquireLockEnter(p) ==
    /\ Idle(p)
    /\ fileLock = 0
    /\ fileLock' = p
    /\ odinDir' = TRUE
    /\ pc' = [pc EXCEPT ![p] = "al_locked"]
    /\ UNCHANGED <<lockFile, alive, holds, res, cmd, auditReport, storeVars, opVars>>

(* filelock.Timeout: the .filelock is held by another process for the whole timeout *)
AcquireLockTimeout(p) ==
    /\ Idle(p)
    /\ fileLock # 0
    /\ res' = [res EXCEPT ![p] = "false"]
    /\ odinDir' = TRUE
    /\ UNCHANGED <<lockFile, fileLock, alive, pc, holds, cmd, auditReport, storeVars, opVars>>

(* create_lock_file: the lock file it leaves (ok: the write succeeded) *)
CreateLockFile(lf, p, ok) == IF ok THEN PidText(p) ELSE lf

(* acquire_lock: create_lock_file() under the file lock, `return True` whatever it
   returned, leaving the with block *)
AcquireLockBody(p) ==
    /\ alive[p] /\ pc[p] = "al_locked"
    /\ \E ok \in BOOLEAN : lockFile' = CreateLockFile(lockFile, p, ok)
    /\ fileLock' = 0
    /\ holds' = [holds EXCEPT ![p] = TRUE]
    /\ res' = [res EXCEPT ![p] = "true"]
    /\ pc' = [pc EXCEPT ![p] = "idle"]
    /\ UNCHANGED <<alive, cliVars, storeVars, opVars>>

(* InstanceManager.release_lock: the lock file it leaves *)
ReleaseLockFile(lf, p) == NoFile

ReleaseLock(p) ==
    /\ Idle(p)
    /\ lockFile' = ReleaseLockFile(lockFile, p)
    /\ holds' = [holds EXCEPT ![p] = FALSE]
    /\ res' = [res EXCEPT ![p] = "none"]
    /\ UNCHANGED <<fileLock, alive, pc, cliVars, storeVars, opVars>>

(* ensure_single_instance: manager.is_odin_running() *)
EsiCheckBody(p) ==
    \E d \in DeniedChoices(lockFile, alive) :
         LET r == IsOdinRunning(lockFile, alive, d) IN
         /\ lockFile' = r.file
         /\ pc' = [pc EXCEPT ![p] = IF r.running THEN "esi_shutdown" ELSE "esi_create"]

EsiCheck(p) ==
    /\ Idle(p)
    /\ EsiCheckBody(p)
    /\ UNCHANGED <<fileLock, alive, holds, res, cliVars, storeVars, opVars>>

(* ensure_single_instance: graceful_shutdown() then wait_for_termination() *)
EsiShutdownNothing(p) ==
    /\ alive[p] /\ pc[p] = "esi_shutdown"
    /\ \E d \in DeniedChoices(lockFile, alive) :
         LET r == IsOdinRunning(lockFile, alive, d) IN
         /\ ~r.running
         /\ lockFile' = r.file
    /\ pc' = [pc EXCEPT ![p] = "esi_create"]
    /\ UNCHANGED <<alive, holds, res, fileLock, cliVars, storeVars, opVars>>

\* terminate() then kill(): the victim dies, no atexit hook runs in it;
\* wait_for_termination then finds the pid gone and unlinks the stale file
EsiShutdownKilled(p) ==
    /\ alive[p] /\ pc[p] = "esi_shutdown"
    /\ IsOdinRunning(lockFile, alive, FALSE).running
    /\ LET victim == ParsePid(lockFile) IN
         /\ alive' = [alive EXCEPT ![victim] = FALSE]
         /\ fileLock' = IF fileLock = victim THEN 0 ELSE fileLock
         /\ holds' = [holds EXCEPT ![victim] = FALSE]
         /\ KillOp(victim)
         /\ IF victim = p
            THEN /\ pc' = [pc EXCEPT ![p] = "dead"]
                 /\ UNCHANGED lockFile
            ELSE /\ pc' = [pc EXCEPT ![p] = "esi_create", ![victim] = "dead"]
                 /\ lockFile' = NoFile
    /\ UNCHANGED <<res, cliVars, storeVars>>

\* psutil.AccessDenied on terminate(): graceful_shutdown returns True and
\* wait_for_termination times out with a warning only
EsiShutdownDenied(p) ==
    /\ alive[p] /\ pc[p] = "esi_shutdown"
    /\ IsOdinRunning(lockFile, alive, FALSE).running
    /\ pc' = [pc EXCEPT ![p] = "esi_create"]
    /\ UNCHANGED <<lockFile, alive, holds, res, fileLock, cliVars, storeVars, opVars>>

\* the pid still exists after kill(): graceful_shutdown returns False
EsiShutdownFailed(p) ==
    /\ alive[p] /\ pc[p] = "esi_shutdown"
    /\ IsOdinRunning(lockFile, alive, FALSE).running
    /\ pc' = [pc EXCEPT ![p] = AfterEsi(p)]
    /\ res' = [res EXCEPT ![p] = "false"]
    /\ UNCHANGED <<lockFile, alive, holds, fileLock, cliVars, storeVars, opVars>>

(* ensure_single_instance: return manager.create_lock_file() *)
EsiCreate(p) ==
    /\ alive[p] /\ pc[p] = "esi_create"
    /\ \E ok \in BOOLEAN :
         /\ lockFile' = CreateLockFile(lockFile, p, ok)
         /\ holds' = [holds EXCEPT ![p] = IF ok THEN TRUE ELSE @]
         /\ res' = [res EXCEPT ![p] = IF ok THEN "true" ELSE "false"]
         /\ odinDir' = (odinDir \/ ok)
    /\ pc' = [pc EXCEPT ![p] = AfterEsi(p)]
    /\ UNCHANGED <<fileLock, alive, cmd, auditReport, storeVars, opVars>>

(* odin/checkpoint.py lock_instance: ensure_scaffold(); if LOCK.exists(): raise *)
LockInstanceCheck(p) ==
    /\ Idle(p)
    /\ odinDir' = TRUE
    /\ ckpt' = IF ckpt = MissingCkpt THEN ScaffoldCkpt ELSE ckpt
    /\ IF lockFile # NoFile
       THEN /\ res' = [res EXCEPT ![p] = "raised"]
            /\ UNCHANGED pc
       ELSE /\ pc' = [pc EXCEPT ![p] = "li_write"]
            /\ UNCHANGED res
    /\ UNCHANGED <<lockFile, fileLock, alive, holds, cmd, auditReport, opVars,
                   impl, handlers, subscriptions, baseline, now, tree, logLen, bdir, agentDir, legacyDir>>

(* lock_instance: LOCK.write_text("locked\n") *)
LockInstanceWrite(p) ==
    /\ alive[p] /\ pc[p] = "li_write"
    /\ lockFile' = LockedText
    /\ holds' = [holds EXCEPT ![p] = TRUE]
    /\ res' = [res EXCEPT ![p] = "true"]
    /\ pc' = [pc EXCEPT ![p] = "idle"]
    /\ UNCHANGED <<fileLock, alive, cliVars, storeVars, opVars>>

(* odin/checkpoint.py unlock_instance: the lock file it leaves *)
UnlockInstanceFile(lf, p) == NoFile

UnlockInstance(p) ==
    /\ Idle(p)
    /\ lockFile' = UnlockInstanceFile(lockFile, p)
    /\ holds' = [holds EXCEPT ![p] = FALSE]
    /\ res' = [res EXCEPT ![p] = "none"]
    /\ UNCHANGED <<fileLock, alive, pc, cliVars, storeVars, opVars>>

(* normal interpreter exit, after a command or from idle: atexit runs
   cleanup_on_exit -> release_lock *)
CleanupOnExit(p) ==
    /\ alive[p] /\ pc[p] \in {"idle", "exit"}
    /\ lockFile' = ReleaseLockFile(lockFile, p)
    /\ alive' = [alive EXCEPT ![p] = FALSE]
    /\ holds' = [holds EXCEPT ![p] = FALSE]
    /\ pc' = [pc EXCEPT ![p] = "dead"]
    /\ cmd' = [cmd EXCEPT ![p] = "none"]
    /\ UNCHANGED <<fileLock, res, odinDir, auditReport, storeVars, opVars>>

(* the process is killed: no atexit hook, the OS drops its file lock *)
Crash(p) ==
    /\ alive[p]
    /\ alive' = [alive EXCEPT ![p] = FALSE]
    /\ holds' = [holds EXCEPT ![p] = FALSE]
    /\ pc' = [pc EXCEPT ![p] = "dead"]
    /\ fileLock' = IF fileLock = p THEN 0 ELSE fileLock
    /\ KillOp(p)
    /\ UNCHANGED <<lockFile, res, cliVars, storeVars>>

LockInit ==
    /\ lockFile \in {NoFile, PidText(Foreign)}
    /\ fileLock = 0
    /\ alive = [p \in Procs |-> TRUE]
    /\ pc = [p \in Procs |-> "idle"]
    /\ holds = [p \in Procs |-> FALSE]
    /\ res = [p \in Procs |-> "none"]
    /\ cmd = [p \in Procs |-> "none"]
    /\ odinDir = (lockFile # NoFile)
    /\ auditReport = FALSE

OpInit ==
    /\ opKind = "none" /\ opPc = "idle" /\ opCaller = NoProc
    /\ opRec = Null /\ opTarget = Null /\ opSafety = -1
    /\ opTodo = <<>> /\ opErrs = {}
    /\ result = NoResult

LockNext ==
    \E p \in Procs :
        \/ AcquireLockEnter(p)
        \/ AcquireLockTimeout(p)
        \/ AcquireLockBody(p)
        \/ ReleaseLock(p)
        \/ EsiCheck(p)
        \/ EsiShutdownNothing(p)
        \/ EsiShutdownKilled(p)
        \/ EsiShutdownDenied(p)
        \/ EsiShutdownFailed(p)
        \/ EsiCreate(p)
        \/ LockInstanceCheck(p)
        \/ LockInstanceWrite(p)
        \/ UnlockInstance(p)
        \/ CleanupOnExit(p)
        \/ Crash(p)

-----------------------------------------------------------------------------
(* Part 2: files, paths and clocks shared by the backup implementations *)

\* relative paths, as pathlib parts
FA == <<"a.py">>
FB == <<"src", "b.py">>
FG == <<".git", "HEAD">>
CkptPath == <<".odin", "AI_CHECKPOINT.json">>
Paths == {FA, FB, FG}
\* sorted() order of the paths
PathOrder == <<FG, FA, FB>>
InOrder(S) == SelectSeq(PathOrder, LAMBDA q : q \in S)
Contents == 0..MaxContent
\* contents an edit may give a file (0: delete it)
EditContents(q) == IF q = FA THEN Contents ELSE IF q = FG THEN {0, 1} ELSE {}
\* Path.resolve() of the project root
RootParts == <<"/", "home", "proj">>
Abs(rel) == RootParts \o rel

Last(parts) == parts[Len(parts)]
\* Path.suffix.lower() of the names the model uses
Suffix(name) ==
    CASE name = "a.py" -> ".py"
      [] name = "b.py" -> ".py"
      [] name = "AI_CHECKPOINT.json" -> ".json"
      [] name = "backup.json" -> ".json"
      [] name = "b.pyc" -> ".pyc"
      [] name = "data.bin" -> ".bin"
      [] OTHER -> ""
StartsWithDot(name) == name \in {".git", ".odin"}
\* proper ancestors of a relative path
Ancestors(rel) == {SubSeq(rel, 1, k) : k \in 1..(Len(rel) - 1)}

\* strftime("%Y%m%d_%H%M%S"): the clock cut to whole seconds
Second(t) == t \div TicksPerSecond

lockRest == <<lockFile, fileLock, alive, holds, res, odinDir, auditReport>>

\* the operation in flight returns r to its caller
EndOp(r) ==
    /\ opKind' = "none" /\ opPc' = "idle" /\ opCaller' = NoProc
    /\ opRec' = Null /\ opTarget' = Null /\ opSafety' = -1
    /\ opTodo' = <<>> /\ opErrs' = {}
    /\ result' = r
    /\ pc' = IF opCaller \in Procs THEN [pc EXCEPT ![opCaller] = "exit"] ELSE pc
    /\ cmd' = cmd

OpResult(status) ==
    [kind |-> opKind, status |-> status, stage |-> opPc,
     ts |-> IF opRec = Null THEN -1 ELSE opRec.ts, safety |-> opSafety]

(* a user or tool edits, creates or deletes a working-tree file *)
Edit(p, c) ==
    /\ opKind = "none"
    /\ impl # "cli"
    /\ c \in EditContents(p)
    /\ tree[p] # c
    /\ tree' = [tree EXCEPT ![p] = c]
    /\ UNCHANGED <<lockVars, cliVars, opVars, impl, handlers, subscriptions, baseline, now, ckpt, logLen, bdir, agentDir, legacyDir>>

(* time passes *)
Tick ==
    /\ opKind = "none"
    /\ now.t < MaxNow
    /\ now' = [now EXCEPT !.t = @ + 1]
    /\ UNCHANGED <<lockVars, cliVars, opVars, impl, handlers, subscriptions, baseline, tree, ckpt, logLen, bdir, agentDir, legacyDir>>

-----------------------------------------------------------------------------
(* Part 2a: SmartBackupManager (odin/backup.py) *)

ExcludePatterns ==
    {".git", "__pycache__", ".pytest_cache", "node_modules", ".vscode", ".idea",
     ".DS_Store", "dist", "build", ".odin/backups"}
ImportantExtensions ==
    {".py", ".js", ".ts", ".jsx", ".tsx", ".json", ".md", ".yml", ".yaml", ".toml",
     ".cfg", ".ini", ".txt", ".sh", ".bat", ".ps1", ".sql", ".html", ".css",
     ".go", ".rs", ".java", ".cpp", ".c", ".h"}
SpecialNames ==
    {"Dockerfile", "Makefile", "requirements.txt", "package.json", "Cargo.toml",
     "go.mod", "pom.xml", "build.gradle"}

(* _should_include_in_snapshot(path), path absolute as rglob yields it *)
ShouldIncludeInSnapshot(abs, isFile) ==
    /\ \A i \in 1..Len(abs) : abs[i] \notin ExcludePatterns
    /\ IF isFile
       THEN Suffix(Last(abs)) \in ImportantExtensions \/ Last(abs) \in SpecialNames
       ELSE ~StartsWithDot(Last(abs))

\* members of the tar: tar.add(item) of an included file, or (recursively) of an
\* included directory above it
InSnapshot(rel) ==
    \/ ShouldIncludeInSnapshot(Abs(rel), TRUE)
    \/ \E d \in Ancestors(rel) : ShouldIncludeInSnapshot(Abs(d), FALSE)

(* _should_restore_file(member.name): substring tests on the member name *)
ShouldRestoreFile(rel) ==
    /\ ~\E i \in 1..(Len(rel) - 1) : rel[i] \in {".git", "__pycache__"}
    /\ ~\E i \in 1..(Len(rel) - 2) : rel[i] = ".odin" /\ rel[i + 1] = "backups"

Unavailable == [available |-> FALSE, files |-> <<>>, ckpt |-> MissingCkpt, log |-> 0]

(* _create_working_tree_snapshot *)
CreateWorkingTreeSnapshot(tr, ck, lg) ==
    [available |-> TRUE,
     files |-> [q \in {r \in Paths : tr[r] # 0 /\ InSnapshot(r)} |-> tr[q]],
     ckpt |-> IF ck # MissingCkpt /\ InSnapshot(CkptPath) THEN ck ELSE MissingCkpt,
     log |-> lg]

NoPatch == [from |-> -1, to |-> -1]
GitAvailable(tr) == tr[FG] # 0
(* _get_git_diff_patch: `git diff HEAD` of the tracked file *)
GetGitDiffPatch(tr) ==
    IF GitAvailable(tr) /\ tr[FA] # HeadContent
    THEN [from |-> HeadContent, to |-> tr[FA]]
    ELSE NoPatch

(* _load_current_checkpoint *)
LoadCurrentCheckpoint(ck) == IF ck.valid THEN ck ELSE DefaultCkpt

(* _generate_backup_filename and Path.with_suffix('.tmp') *)
GenerateBackupFilename(t) == [sec |-> Second(t), ext |-> ".bak.json"]
\* a writer that opens the final name itself instead of a temporary one
WithSuffixTmpDirect(f) == f
WithSuffixTmp(f) == [sec |-> f.sec, ext |-> ".bak.tmp"]
\* glob('*.bak.json')
Canonical(dir) == {f \in DOMAIN dir : f.ext = ".bak.json"}

Put(dir, f, content) == [g \in DOMAIN dir \cup {f} |-> IF g = f THEN content ELSE dir[g]]
Remove(dir, f) == [g \in DOMAIN dir \ {f} |-> dir[g]]

IsManager == impl \in {"manager", "cli", "guard"}
BkStoreRest == <<impl, handlers, subscriptions, baseline, tree, agentDir, legacyDir>>

\* create_backup raised BackupError: a plain call gets the exception, rollback_to
\* catches it and returns False
\* with_backup catches it and runs the function all the same ("Proceeding without
\* backup"); ensure_backup_before_write catches it and returns None to safe_write_file
Guarded == {"with_backup", "safe_write"}
ProceedWithoutBackup ==
    /\ opPc' = "func" /\ opSafety' = -1
    /\ UNCHANGED <<opKind, opCaller, opRec, opTarget, opTodo, opErrs, result, pc, cmd>>
BkFail ==
    IF opKind \in Guarded THEN ProceedWithoutBackup
    ELSE EndOp(OpResult(IF opKind = "backup" THEN "BackupError" ELSE "false"))

(* create_backup, lines 252-253: name the backup after the current second *)
BkEnter(kind, caller, target) ==
    /\ opKind' = kind /\ opCaller' = caller /\ opTarget' = target
    /\ opRec' = [name |-> GenerateBackupFilename(now.t), ts |-> now.t, complete |-> FALSE,
                 reason |-> IF kind = "backup" THEN "manual" ELSE "pre_rollback",
                 pre |-> MissingCkpt, patch |-> NoPatch, snap |-> Unavailable]
    /\ opPc' = "bk_gather"
    /\ opSafety' = -1 /\ opTodo' = <<>> /\ opErrs' = {}
    /\ now' = [t |-> now.t + 1, n |-> now.n + 1]

(* SmartBackupManager().create_backup(reason) called directly *)
MgrCreateBackup ==
    /\ impl = "manager" /\ opKind = "none" /\ now.n < MaxOps
    /\ BkEnter("backup", NoProc, Null)
    /\ UNCHANGED <<lockVars, cliVars, result, BkStoreRest, ckpt, logLen, bdir>>

(* create_backup, lines 257-303: checkpoint, git diff, snapshot, hash, record *)
BkGather ==
    /\ IsManager /\ opPc = "bk_gather"
    /\ \/ /\ \E snapOk \in BOOLEAN :
               opRec' = [opRec EXCEPT
                   !.complete = TRUE,
                   !.pre = LoadCurrentCheckpoint(ckpt),
                   !.patch = GetGitDiffPatch(tree),
                   !.snap = IF snapOk THEN CreateWorkingTreeSnapshot(tree, ckpt, logLen)
                            ELSE Unavailable]
          /\ opPc' = "bk_tmp"
          /\ UNCHANGED <<opKind, opCaller, opTarget, opSafety, opTodo, opErrs, result, pc, cmd>>
       \/ BkFail
    /\ UNCHANGED <<lockRest, storeVars>>

(* lines 306-308: json.dump into the temporary file *)
BkWriteTmp ==
    /\ IsManager /\ opPc = "bk_tmp"
    /\ \/ /\ bdir' = Put(bdir, WithSuffixTmp(opRec.name), opRec)
          /\ opPc' = "bk_rename"
          /\ UNCHANGED <<opKind, opCaller, opRec, opTarget, opSafety, opTodo, opErrs, result, pc, cmd>>
       \/ \* the dump stops part way
          /\ bdir' = Put(bdir, WithSuffixTmp(opRec.name), [opRec EXCEPT !.complete = FALSE])
          /\ BkFail
       \/ \* open() fails
          /\ UNCHANGED bdir
          /\ BkFail
    /\ UNCHANGED <<lockRest, BkStoreRest, now, ckpt, logLen>>

(* line 311: temp_backup_path.rename(backup_path) *)
BkRename ==
    /\ IsManager /\ opPc = "bk_rename"
    /\ \/ /\ bdir' = Put(Remove(bdir, WithSuffixTmp(opRec.name)), opRec.name,
                         bdir[WithSuffixTmp(opRec.name)])
          /\ opPc' = "bk_ckpt"
          /\ UNCHANGED <<opKind, opCaller, opRec, opTarget, opSafety, opTodo, opErrs, result, pc, cmd>>
       \/ /\ UNCHANGED bdir
          /\ BkFail
    /\ UNCHANGED <<lockRest, BkStoreRest, now, ckpt, logLen>>

\* what create_backup writes back to AI_CHECKPOINT.json
BackupCkpt(rec) ==
    [valid |-> TRUE, ref |-> rec.name.sec,
     act |-> IF rec.reason = "manual" THEN "backup_created_manual"
             ELSE "backup_created_pre_rollback"]

(* lines 314-320: update the checkpoint with the backup reference *)
BkUpdateCkpt ==
    /\ IsManager /\ opPc = "bk_ckpt"
    /\ \/ /\ ckpt' = BackupCkpt(opRec)
          /\ opPc' = "bk_log"
          /\ UNCHANGED <<opKind, opCaller, opRec, opTarget, opSafety, opTodo, opErrs, result, pc, cmd>>
       \/ \* open(..., 'w') truncated the file, the dump failed
          /\ ckpt' = TruncatedCkpt
          /\ BkFail
       \/ \* open() fails
          /\ UNCHANGED ckpt
          /\ BkFail
    /\ UNCHANGED <<lockRest, BkStoreRest, now, logLen, bdir>>

\* what the caller does once create_backup has returned the path
AfterBackup(kind) ==
    IF kind = "rollback" THEN "rb_ckpt" ELSE IF kind \in Guarded THEN "func" ELSE "done"

(* lines 323-326: _log_backup_action (never raises), return str(backup_path) *)
BkLog ==
    /\ IsManager /\ opPc = "bk_log"
    /\ \E logged \in BOOLEAN : logLen' = IF logged THEN logLen + 1 ELSE logLen
    /\ IF AfterBackup(opKind) = "done"
       THEN EndOp(OpResult("ok"))
       ELSE /\ opPc' = AfterBackup(opKind)
            /\ opSafety' = opRec.name.sec
            /\ UNCHANGED <<opKind, opCaller, opRec, opTarget, opTodo, opErrs, result, pc, cmd>>
    /\ UNCHANGED <<lockRest, BkStoreRest, now, ckpt, bdir>>

(* the process is killed inside create_backup or rollback_to *)
Interrupt ==
    /\ opKind # "none" /\ opCaller = NoProc
    /\ EndOp(OpResult("interrupted"))
    /\ UNCHANGED <<lockRest, storeVars>>

-----------------------------------------------------------------------------
(* Part 2b: SmartBackupManager.rollback_to, rollback_last_valid, cleanup_old_backups *)

\* backup file names a caller may ask for
FileNames == {[sec |-> n, ext |-> ".bak.json"] : n \in 0..Second(MaxNow)}
\* list_backups(): the canonical files json.load can read, newest name first
Readable(dir) == {f \in Canonical(dir) : dir[f].complete}
LatestBackup(dir) == CHOOSE f \in Readable(dir) : \A g \in Readable(dir) : g.sec <= f.sec

(* rollback_to, lines 433-453: resolve, load, then create_backup(pre_rollback_to_...) *)
RollbackBegin(caller, f) ==
    IF f \notin DOMAIN bdir
    THEN /\ result' = [kind |-> "rollback", status |-> "notfound", stage |-> "resolve",
                       ts |-> -1, safety |-> -1]
         /\ UNCHANGED <<opKind, opPc, opCaller, opRec, opTarget, opSafety, opTodo, opErrs, now>>
    ELSE IF ~bdir[f].complete
    THEN \* json.load raises
         /\ result' = [kind |-> "rollback", status |-> "false", stage |-> "load",
                       ts |-> -1, safety |-> -1]
         /\ UNCHANGED <<opKind, opPc, opCaller, opRec, opTarget, opSafety, opTodo, opErrs, now>>
    ELSE /\ now.n < MaxOps
         /\ BkEnter("rollback", caller, bdir[f])
         /\ UNCHANGED result

MgrRollbackTo(f) ==
    /\ impl = "manager" /\ opKind = "none"
    /\ RollbackBegin(NoProc, f)
    /\ UNCHANGED <<lockVars, cliVars, BkStoreRest, ckpt, logLen, bdir>>

RbKeep == <<opKind, opCaller, opRec, opTarget, opSafety, opTodo, opErrs, result, pc, cmd>>

(* lines 456-460: restore the checkpoint saved in the backup *)
RbRestoreCkpt ==
    /\ IsManager /\ opPc = "rb_ckpt"
    /\ \/ /\ ckpt' = opTarget.pre
          /\ opPc' = "rb_patch"
          /\ UNCHANGED RbKeep
       \/ /\ ckpt' \in {ckpt, TruncatedCkpt}
          /\ EndOp(OpResult("false"))
    /\ UNCHANGED <<lockRest, BkStoreRest, now, logLen, bdir>>

(* _apply_git_patch: `git apply --reverse`, all or nothing *)
ApplyGitPatch(tr, patch) ==
    IF tr[FA] = patch.to THEN [tr EXCEPT ![FA] = patch.from] ELSE tr

(* lines 463-468: apply the git diff in reverse, a failure is a warning *)
RbApplyPatch ==
    /\ IsManager /\ opPc = "rb_patch"
    /\ IF GitAvailable(tree) /\ opTarget.patch # NoPatch
       THEN tree' \in {tree, ApplyGitPatch(tree, opTarget.patch)}
       ELSE UNCHANGED tree
    /\ opPc' = "rb_snap"
    /\ UNCHANGED <<RbKeep, lockRest, impl, handlers, subscriptions, baseline, agentDir, legacyDir, now, ckpt, logLen, bdir>>

\* tar members rollback extracts
Restorable(snap) == {q \in DOMAIN snap.files : ShouldRestoreFile(q)}
ExtractFiles(tr, snap, done) ==
    [q \in Paths |-> IF q \in done THEN snap.files[q] ELSE tr[q]]

(* lines 471-476 and _restore_from_snapshot: extract the archive, a failure is a warning *)
RbRestoreSnapshot ==
    /\ IsManager /\ opPc = "rb_snap"
    /\ IF opTarget.snap.available
       THEN \/ /\ tree' = ExtractFiles(tree, opTarget.snap, Restorable(opTarget.snap))
               /\ ckpt' = IF opTarget.snap.ckpt # MissingCkpt /\ ShouldRestoreFile(CkptPath)
                          THEN opTarget.snap.ckpt ELSE ckpt
               /\ logLen' = opTarget.snap.log
               /\ UNCHANGED opErrs
            \/ \* tar.extract raises after some members: _restore_from_snapshot returns
               \* False, the members not extracted are the ones the warning is about
               /\ \E done \in SUBSET Restorable(opTarget.snap) :
                     /\ done # Restorable(opTarget.snap)
                     /\ tree' = ExtractFiles(tree, opTarget.snap, done)
                     /\ opErrs' = opErrs \cup (Restorable(opTarget.snap) \ done)
               /\ UNCHANGED <<ckpt, logLen>>
       ELSE UNCHANGED <<tree, ckpt, logLen, opErrs>>
    /\ opPc' = "rb_finish"
    /\ UNCHANGED <<opKind, opCaller, opRec, opTarget, opSafety, opTodo, result, pc, cmd>>
    /\ UNCHANGED <<lockRest, impl, handlers, subscriptions, baseline, agentDir, legacyDir, now, bdir>>

(* lines 479-485: _update_checkpoint_after_rollback and _log_backup_action (neither
   raises), return True *)
RbFinish ==
    /\ IsManager /\ opPc = "rb_finish"
    /\ ckpt' \in {[valid |-> TRUE, ref |-> LoadCurrentCheckpoint(ckpt).ref,
                   act |-> "rollback_from"], ckpt}
    /\ \E logged \in BOOLEAN : logLen' = IF logged THEN logLen + 1 ELSE logLen
    /\ EndOp(OpResult("true"))
    /\ UNCHANGED <<lockRest, BkStoreRest, now, bdir>>

(* cleanup_old_backups(keep_count): unlink all but the keep_count newest *)
KeepNewest(dir, keep) ==
    {f \in Readable(dir) : Cardinality({g \in Readable(dir) : g.sec > f.sec}) < keep}
CleanupOldBackups(dir, keep) ==
    [f \in (DOMAIN dir \ Readable(dir)) \cup KeepNewest(dir, keep) |-> dir[f]]

\* each unlink sits in its own try: the files in `failed` stay
CleanupBody(keep) ==
    /\ \E failed \in SUBSET (Readable(bdir) \ KeepNewest(bdir, keep)) :
          bdir' = [f \in DOMAIN CleanupOldBackups(bdir, keep) \cup failed |-> bdir[f]]
    /\ logLen' = IF bdir' # bdir THEN logLen + 1 ELSE logLen

MgrCleanup(keep) ==
    /\ impl = "manager" /\ opKind = "none"
    /\ Cardinality(Readable(bdir)) > keep
    /\ CleanupBody(keep)
    /\ UNCHANGED <<lockVars, cliVars, opVars, BkStoreRest, now, ckpt>>

-----------------------------------------------------------------------------
(* Part 2c: CheckpointAgent (agents/system/checkpoint.py) *)

Tasks == {"t1", "unknown"}
DefaultIgnores ==
    {".git", ".odin", "backups", "__pycache__", "node_modules", ".venv", "venv", ".env",
     "dist", "build", "target", ".next", ".nuxt", "coverage", ".pytest_cache",
     ".mypy_cache"}
BackupExtensions ==
    {".py", ".js", ".ts", ".jsx", ".tsx", ".go", ".rs", ".java", ".cpp", ".c", ".h",
     ".hpp", ".json", ".yaml", ".yml", ".toml", ".xml", ".md", ".txt", ".sql", ".sh",
     ".bash"}

(* walk_files(root, ignores): prune ignored directories, then skip a file when any
   part of its path as walked (root included) is ignored *)
\* walk_files, line 164: `ignores or DEFAULT_IGNORES`, an empty set is falsy
OrDefaultIgnores(ignores) == IF ignores = {} THEN DefaultIgnores ELSE ignores
WalkFiles(tr, root, ignores) ==
    {q \in Paths :
        /\ tr[q] # 0
        /\ \A i \in 1..(Len(q) - 1) : q[i] \notin OrDefaultIgnores(ignores)
        /\ \A i \in 1..Len(root \o q) : (root \o q)[i] \notin OrDefaultIgnores(ignores)}

Sha256(c) == <<"sha256", c>>
(* semantic_hash_file *)
SemanticHashFile(q, c) == Sha256(c)
(* project_sih *)
ProjectSih(tr, root, ignores) ==
    [q \in WalkFiles(tr, root, ignores) |-> SemanticHashFile(q, tr[q])]

(* _should_backup *)
ShouldBackup(q) == Suffix(Last(q)) \in BackupExtensions

NoMeta == [exists |-> FALSE, valid |-> FALSE, ts |-> -1, backed |-> <<>>, hashes |-> <<>>]
EmptyCheckpointDir == [files |-> [q \in Paths |-> 0], meta |-> NoMeta]
AgentIds == [task : Tasks, sec : 0..Second(MaxNow)]

AgStoreRest == <<impl, handlers, subscriptions, baseline, ckpt, logLen, bdir, legacyDir>>
AgKeep == <<opKind, opCaller, opTarget, opSafety, opErrs, result, pc, cmd>>

(* _create_checkpoint, lines 144-145: the id is task id + current second *)
AgEnter(kind, task, target) ==
    /\ opKind' = kind /\ opCaller' = NoProc /\ opTarget' = target
    /\ opRec' = [id |-> [task |-> task, sec |-> Second(now.t)], ts |-> now.t,
                 backed |-> <<>>, hashes |-> <<>>]
    /\ opPc' = "ag_begin"
    /\ opSafety' = -1 /\ opTodo' = <<>> /\ opErrs' = {}
    /\ now' = [t |-> now.t + 1, n |-> now.n + 1]

AgCreateCheckpoint(task) ==
    /\ impl = "agent" /\ opKind = "none" /\ now.n < MaxOps
    /\ AgEnter("backup", task, Null)
    /\ UNCHANGED <<lockVars, cliVars, result, AgStoreRest, tree, agentDir>>

\* a rollback that goes on to restore whatever the safety checkpoint returned
AfterSafetyAlways(success) == "ag_restore"
\* _rollback, lines 259-265: what follows the safety checkpoint
AfterSafety(success) == IF success THEN "ag_restore" ELSE "abort"

\* _create_checkpoint returns AgentResult(success=...)
AgReturn(success) ==
    IF opKind = "backup"
    THEN EndOp(OpResult(IF success THEN "ok" ELSE "failed"))
    ELSE IF AfterSafety(success) = "abort"
    THEN EndOp(OpResult("false"))
    ELSE /\ opPc' = AfterSafety(success)
         /\ opSafety' = IF success THEN opRec.id.sec ELSE -1
         /\ opTodo' = opTarget.backed
         /\ UNCHANGED <<opKind, opCaller, opRec, opTarget, opErrs, result, pc, cmd>>

(* lines 148-152: mkdir(exist_ok=True), project_sih *)
AgBegin ==
    /\ impl = "agent" /\ opPc = "ag_begin"
    /\ \/ /\ agentDir' = IF opRec.id \in DOMAIN agentDir THEN agentDir
                         ELSE Put(agentDir, opRec.id, EmptyCheckpointDir)
          /\ opRec' = [opRec EXCEPT !.hashes = ProjectSih(tree, RootParts, DefaultIgnores)]
          /\ opTodo' = InOrder(WalkFiles(tree, RootParts, DefaultIgnores))
          /\ opPc' = "ag_copy"
          /\ UNCHANGED AgKeep
       \/ /\ UNCHANGED agentDir
          /\ AgReturn(FALSE)
    /\ UNCHANGED <<lockRest, AgStoreRest, now, tree>>

(* lines 156-164: copy one file into the checkpoint directory *)
AgCopy ==
    /\ impl = "agent" /\ opPc = "ag_copy" /\ opTodo # <<>>
    /\ LET h == Head(opTodo) IN
       IF tree[h] # 0 /\ ShouldBackup(h)
       THEN \/ /\ agentDir' = [agentDir EXCEPT ![opRec.id].files[h] = tree[h]]
               /\ opRec' = [opRec EXCEPT !.backed = Append(@, h)]
               /\ opTodo' = Tail(opTodo)
               /\ UNCHANGED <<opPc, AgKeep>>
            \/ /\ UNCHANGED agentDir
               /\ AgReturn(FALSE)
       ELSE /\ opTodo' = Tail(opTodo)
            /\ UNCHANGED <<agentDir, opRec, opPc, AgKeep>>
    /\ UNCHANGED <<lockRest, AgStoreRest, now, tree>>

(* lines 167-179: write checkpoint.json *)
AgWriteMeta ==
    /\ impl = "agent" /\ opPc = "ag_copy" /\ opTodo = <<>>
    /\ \/ /\ agentDir' = [agentDir EXCEPT ![opRec.id].meta =
                 [exists |-> TRUE, valid |-> TRUE, ts |-> opRec.ts,
                  backed |-> opRec.backed, hashes |-> opRec.hashes]]
          /\ opPc' = "ag_store"
          /\ UNCHANGED <<opRec, opTodo, AgKeep>>
       \/ \* write_text stops part way
          /\ agentDir' = [agentDir EXCEPT ![opRec.id].meta =
                 [exists |-> TRUE, valid |-> FALSE, ts |-> opRec.ts,
                  backed |-> <<>>, hashes |-> <<>>]]
          /\ AgReturn(FALSE)
       \/ /\ UNCHANGED agentDir
          /\ AgReturn(FALSE)
    /\ UNCHANGED <<lockRest, AgStoreRest, now, tree>>

(* lines 182-207: state store and log, return the result *)
AgStore ==
    /\ impl = "agent" /\ opPc = "ag_store"
    /\ \E ok \in BOOLEAN : AgReturn(ok)
    /\ UNCHANGED <<lockRest, storeVars>>

(* _rollback, lines 225-257: resolve, load the metadata, create the safety checkpoint *)
AgRollback(id) ==
    /\ impl = "agent" /\ opKind = "none"
    /\ IF id \notin DOMAIN agentDir \/ ~agentDir[id].meta.exists
       THEN /\ result' = [kind |-> "rollback", status |-> "notfound", stage |-> "resolve",
                          ts |-> -1, safety |-> -1]
            /\ UNCHANGED <<opKind, opPc, opCaller, opRec, opTarget, opSafety, opTodo, opErrs, now>>
       ELSE IF ~agentDir[id].meta.valid
       THEN /\ result' = [kind |-> "rollback", status |-> "false", stage |-> "load",
                          ts |-> -1, safety |-> -1]
            /\ UNCHANGED <<opKind, opPc, opCaller, opRec, opTarget, opSafety, opTodo, opErrs, now>>
       ELSE /\ now.n < MaxOps
            /\ AgEnter("rollback", "unknown",
                       [id |-> id, backed |-> agentDir[id].meta.backed,
                        hashes |-> agentDir[id].meta.hashes])
            /\ UNCHANGED result
    /\ UNCHANGED <<lockVars, cliVars, AgStoreRest, tree, agentDir>>

(* lines 271-281: restore one file, collecting a failure *)
AgRestore ==
    /\ impl = "agent" /\ opPc = "ag_restore" /\ opTodo # <<>>
    /\ \/ /\ LET h == Head(opTodo)
                 src == agentDir[opTarget.id].files[h] IN
             IF src # 0
             THEN \/ /\ tree' = [tree EXCEPT ![h] = src]
                     /\ UNCHANGED opErrs
                  \/ /\ opErrs' = opErrs \cup {h}
                     /\ UNCHANGED tree
             ELSE UNCHANGED <<tree, opErrs>>
          /\ opTodo' = Tail(opTodo)
          /\ UNCHANGED <<opKind, opPc, opCaller, opRec, opTarget, opSafety, result, pc, cmd>>
       \/ \* src_path.exists() raises outside the per-file try: the handler of lines
          \* 302-309 returns success=False with data=None
          /\ EndOp(OpResult("raised"))
          /\ UNCHANGED tree
    /\ UNCHANGED <<lockRest, AgStoreRest, now, agentDir>>

(* lines 283-300: log and return success = no errors *)
AgRollbackFinish ==
    /\ impl = "agent" /\ opPc = "ag_restore" /\ opTodo = <<>>
    /\ EndOp(OpResult(IF opErrs = {} /\ opSafety # -1 THEN "true" ELSE "false"))
    /\ UNCHANGED <<lockRest, storeVars>>

-----------------------------------------------------------------------------
(* Part 2d: restore_from_backup (odin/rollback.py) *)

\* everything os.walk(root) visits
AllFiles == Paths \cup {CkptPath}
\* files of the backup directory, the root manifest.json left out
BackupFiles(b) == {q \in Paths : b.files[q] # 0}

(* lines 30-41: mirror mode unlinks rel unless it is under .odin or in the backup *)
MirrorDeletes(rel, backupFiles) == rel[1] # ".odin" /\ rel \notin backupFiles

LgRestoreFromBackup(mirror) ==
    /\ impl = "legacy" /\ opKind = "none"
    /\ IF ~legacyDir.exists
       THEN /\ result' = [kind |-> "rollback", status |-> "none", stage |-> "latest",
                          ts |-> -1, safety |-> -1]
            /\ UNCHANGED <<opKind, opPc, opTarget>>
       ELSE /\ opKind' = "rollback"
            /\ opPc' = IF mirror THEN "lg_mirror" ELSE "lg_copy"
            /\ opTarget' = [mirror |-> mirror, files |-> legacyDir.files]
            /\ UNCHANGED result
    /\ UNCHANGED <<lockVars, cliVars, storeVars, opCaller, opRec, opSafety, opTodo, opErrs>>

(* lines 19-41: the mirror pass *)
LgMirror ==
    /\ impl = "legacy" /\ opPc = "lg_mirror"
    /\ tree' = [q \in Paths |->
                  IF tree[q] # 0 /\ MirrorDeletes(q, BackupFiles(opTarget)) THEN 0 ELSE tree[q]]
    /\ ckpt' = IF ckpt # MissingCkpt /\ MirrorDeletes(CkptPath, BackupFiles(opTarget))
               THEN MissingCkpt ELSE ckpt
    /\ opPc' = "lg_copy"
    /\ UNCHANGED <<lockVars, cliVars, impl, handlers, subscriptions, baseline, now, logLen, bdir, agentDir, legacyDir>>
    /\ UNCHANGED <<opKind, opCaller, opRec, opTarget, opSafety, opTodo, opErrs, result>>

(* lines 43-53: copy every backup file over the project *)
LgCopy ==
    /\ impl = "legacy" /\ opPc = "lg_copy"
    /\ tree' = [q \in Paths |-> IF q \in BackupFiles(opTarget) THEN opTarget.files[q] ELSE tree[q]]
    /\ EndOp(OpResult("ok"))
    /\ UNCHANGED <<lockRest, impl, handlers, subscriptions, baseline, now, ckpt, logLen, bdir, agentDir, legacyDir>>

-----------------------------------------------------------------------------
(* Part 3: the command line (odin/cli.py) *)

\* a process starts a command
Start(p, c) ==
    /\ Idle(p) /\ impl = "cli"
    /\ cmd' = [cmd EXCEPT ![p] = c]

(* init: ensure_single_instance() first; its result only chooses a message *)
CliInit(p) ==
    /\ Start(p, "init")
    /\ EsiCheckBody(p)
    /\ UNCHANGED <<fileLock, alive, holds, res, odinDir, auditReport, storeVars, opVars>>

(* init: create_scaffold() *)
CliInitScaffold(p) ==
    /\ alive[p] /\ pc[p] = "init_scaffold"
    /\ IF odinDir
       THEN UNCHANGED <<odinDir, ckpt>>
       ELSE \E ok \in BOOLEAN :
               /\ odinDir' = TRUE
               /\ ckpt' = IF ok THEN ScaffoldCkpt ELSE ckpt
    /\ pc' = [pc EXCEPT ![p] = "init_audit"]
    /\ UNCHANGED <<lockFile, fileLock, alive, holds, res, cmd, auditReport, opVars,
                   impl, handlers, subscriptions, baseline, now, tree, logLen, bdir, agentDir, legacyDir>>

(* init: perform_first_audit() writes .odin/audit_report.md *)
CliInitAudit(p) ==
    /\ alive[p] /\ pc[p] = "init_audit"
    /\ auditReport' \in (IF odinDir THEN {TRUE, auditReport} ELSE {auditReport})
    /\ pc' = [pc EXCEPT ![p] = "exit"]
    /\ UNCHANGED <<lockFile, fileLock, alive, holds, res, cmd, odinDir, storeVars, opVars>>

(* backup: SmartBackupManager().create_backup(reason) *)
CliBackup(p) ==
    /\ Start(p, "backup") /\ opKind = "none" /\ now.n < MaxOps
    /\ pc' = [pc EXCEPT ![p] = "cli_op"]
    /\ BkEnter("backup", p, Null)
    /\ UNCHANGED <<lockFile, fileLock, alive, holds, res, odinDir, auditReport, result,
                   BkStoreRest, ckpt, logLen, bdir>>

\* a command that starts rollback_to(f)
CliRollbackBody(p, f) ==
    /\ opKind = "none"
    /\ RollbackBegin(p, f)
    /\ pc' = [pc EXCEPT ![p] = IF opKind' = "none" THEN "exit" ELSE "cli_op"]
    /\ UNCHANGED <<lockFile, fileLock, alive, holds, res, odinDir, auditReport,
                   BkStoreRest, ckpt, logLen, bdir>>

(* rollback-to BACKUP_FILE *)
CliRollbackTo(p, f) ==
    /\ Idle(p) /\ impl = "cli"
    /\ cmd' = [cmd EXCEPT ![p] = "rollback_to"]
    /\ CliRollbackBody(p, f)

(* rollback: rollback_last_valid() picks the newest listed backup *)
CliRollback(p) ==
    /\ Idle(p) /\ impl = "cli"
    /\ Readable(bdir) # {}
    /\ cmd' = [cmd EXCEPT ![p] = "rollback"]
    /\ CliRollbackBody(p, LatestBackup(bdir))

(* cleanup-backups --keep N --confirm *)
CliCleanup(p, keep) ==
    /\ Start(p, "cleanup") /\ opKind = "none"
    /\ Cardinality(Readable(bdir)) > keep
    /\ CleanupBody(keep)
    /\ pc' = [pc EXCEPT ![p] = "exit"]
    /\ UNCHANGED <<lockFile, fileLock, alive, holds, res, odinDir, auditReport, opVars,
                   BkStoreRest, now, ckpt>>

-----------------------------------------------------------------------------
(* Initial states and specifications *)

HeadTree == [q \in Paths |-> 1]
NoLegacy == [exists |-> FALSE, files |-> [q \in Paths |-> 0]]

\* a project with no backups yet
EmptyStore ==
    /\ now = [t |-> 0, n |-> 0]
    /\ tree = HeadTree
    /\ logLen = 0
    /\ bdir = <<>>
    /\ agentDir = <<>>

LockOnlyInit ==
    /\ LockInit /\ OpInit /\ EmptyStore
    /\ impl = "lock"
    /\ baseline = Null
    /\ handlers = NoHandlers /\ subscriptions = <<>>
    /\ ckpt = MissingCkpt
    /\ legacyDir = NoLegacy

SpecLock == LockOnlyInit /\ [][LockNext]_vars

CliInitState ==
    /\ LockInit /\ OpInit /\ EmptyStore
    /\ impl = "cli"
    /\ baseline = Null
    /\ handlers = NoHandlers /\ subscriptions = <<>>
    /\ ckpt = IF odinDir THEN ScaffoldCkpt ELSE MissingCkpt
    /\ legacyDir = NoLegacy

CliNext ==
    \/ \E p \in Procs :
        \/ CliInit(p)
        \/ EsiShutdownNothing(p)
        \/ EsiShutdownKilled(p)
        \/ EsiShutdownDenied(p)
        \/ EsiShutdownFailed(p)
        \/ EsiCreate(p)
        \/ CliInitScaffold(p)
        \/ CliInitAudit(p)
        \/ CliBackup(p)
        \/ \E f \in FileNames : CliRollbackTo(p, f)
        \/ CliRollback(p)
        \/ \E keep \in {0, 1} : CliCleanup(p, keep)
        \/ CleanupOnExit(p)
        \/ Crash(p)
    \/ BkGather
    \/ BkWriteTmp
    \/ BkRename
    \/ BkUpdateCkpt
    \/ BkLog
    \/ RbRestoreCkpt
    \/ RbApplyPatch
    \/ RbRestoreSnapshot
    \/ RbFinish
    \/ Tick

SpecCli == CliInitState /\ [][CliNext]_vars

\* backup directories restore_from_backup may find: made of project files
LegacyBackups ==
    {[exists |-> TRUE, files |-> [q \in Paths |-> IF q = FA THEN a ELSE IF q = FB THEN b ELSE 0]] :
        a \in Contents, b \in {0, 1}}

StoreInit ==
    /\ LockInit /\ OpInit /\ EmptyStore
    /\ lockFile = NoFile
    /\ impl \in {"manager", "agent", "legacy"}
    /\ baseline = Null
    /\ handlers = NoHandlers /\ subscriptions = <<>>
    /\ ckpt \in {MissingCkpt, ScaffoldCkpt}
    /\ legacyDir \in (IF impl = "legacy" THEN LegacyBackups \cup {NoLegacy} ELSE {NoLegacy})

StoreNext ==
    \/ \E q \in Paths, c \in Contents : Edit(q, c)
    \/ Tick
    \/ Interrupt
    \/ MgrCreateBackup
    \/ BkGather
    \/ BkWriteTmp
    \/ BkRename
    \/ BkUpdateCkpt
    \/ BkLog
    \/ \E f \in FileNames : MgrRollbackTo(f)
    \/ RbRestoreCkpt
    \/ RbApplyPatch
    \/ RbRestoreSnapshot
    \/ RbFinish
    \/ \E keep \in {0, 1} : MgrCleanup(keep)
    \/ \E task \in Tasks : AgCreateCheckpoint(task)
    \/ AgBegin
    \/ AgCopy
    \/ AgWriteMeta
    \/ AgStore
    \/ \E id \in AgentIds : AgRollback(id)
    \/ AgRestore
    \/ AgRollbackFinish
    \/ \E mirror \in BOOLEAN : LgRestoreFromBackup(mirror)
    \/ LgMirror
    \/ LgCopy

SpecStore == StoreInit /\ [][StoreNext]_vars

-----------------------------------------------------------------------------
(* Properties of the instance lock *)

\* p's acquisition reported success and p neither released nor died
Believes(p) == alive[p] /\ holds[p]

(* C1: at no time do two live processes both hold a successful, unreleased
   acquisition of the instance lock *)
C1_MutualExclusion ==
    \A p \in Procs : \A q \in Procs \ {p} : ~(Believes(p) /\ Believes(q))

\* the step is a release made by p
IsRelease(p) == ReleaseLock(p) \/ UnlockInstance(p) \/ CleanupOnExit(p)

(* C6: a release_lock, unlock_instance or exit hook run by a process the lock file
   does not name leaves the lock file as it was *)
C6_ReleaseByOwnerOnly ==
    [][\A p \in Procs : (IsRelease(p) /\ lockFile # PidText(p)) => lockFile' = lockFile]_vars

\* the lock file names no live process of the tool
Stale(lf, al) ==
    lf # NoFile /\ ~(IsPidText(lf) /\ PidExists(al, ParsePid(lf)) /\ CmdlineHasOdin(ParsePid(lf)))
\* the lock file names a live instance of the tool
NamesLiveInstance(lf, al) ==
    IsPidText(lf) /\ ParsePid(lf) \in Procs /\ al[ParsePid(lf)]
\* the step runs the staleness check of is_odin_running
IsStalenessCheck(p) == EsiCheck(p) \/ EsiShutdownNothing(p)

(* C7: an acquisition that meets a stale lock file is not refused, a successful
   acquisition over a stale lock file ends with a lock file naming the acquirer, and
   the staleness check never deletes a lock file that names a live instance *)
C7_StaleLockIsAbsent ==
    [][\A p \in Procs :
          /\ (LockInstanceCheck(p) /\ Stale(lockFile, alive)) => res'[p] # "raised"
          /\ (Stale(lockFile, alive) /\ ~holds[p] /\ holds'[p]) => lockFile' = PidText(p)
          /\ (IsStalenessCheck(p) /\ NamesLiveInstance(lockFile, alive)) => lockFile' = lockFile
      ]_vars

-----------------------------------------------------------------------------
(* Properties of the command line *)

\* the files of the project a command can write
projectFiles == <<tree, ckpt, logLen, bdir, auditReport>>
\* the step belongs to the command process p runs
CommandStep(p) ==
    /\ cmd'[p] # "none"
    /\ opCaller = p \/ opCaller' = p \/ pc'[p] # pc[p]

(* C8: a step of a mutating command changes a project file only when the process
   running it holds the instance lock it acquired *)
C8_NoWriteWithoutLock ==
    [][\A p \in Procs :
          (CommandStep(p) /\ projectFiles' # projectFiles)
              => (holds[p] /\ lockFile = PidText(p))]_vars

-----------------------------------------------------------------------------
(* Properties of the backup stores *)

\* the safety backup of the rollback in flight is a visible record
SafetyVisible ==
    CASE IsManager ->
            /\ opRec.name \in Canonical(bdir)
            /\ bdir[opRec.name].complete /\ bdir[opRec.name].ts = opRec.ts
      [] impl = "agent" ->
            /\ opRec.id \in DOMAIN agentDir
            /\ agentDir[opRec.id].meta.valid /\ agentDir[opRec.id].meta.ts = opRec.ts
      [] OTHER -> FALSE

(* C2: a rollback step that writes or deletes a working-tree file or the checkpoint
   file happens only once the rollback's safety backup is a visible record *)
C2_SafetyBackupFirst ==
    [][(opKind = "rollback" /\ (tree' # tree \/ ckpt' # ckpt)) => SafetyVisible]_vars

\* stages of create_backup up to and including the rename
UpToRename == {"bk_gather", "bk_tmp", "bk_rename"}
\* a canonical file holds the record stamped ts
VisibleRecordOf(ts) == \E f \in Canonical(bdir) : bdir[f].ts = ts

(* C3: every file under a canonical backup name holds a complete record, and a
   create_backup call that has not passed its rename step, or that failed or was
   interrupted there or earlier, has no record under a canonical name *)
C3_AtomicBackupWrite ==
    /\ \A f \in Canonical(bdir) : bdir[f].complete
    /\ opPc \in UpToRename => ~VisibleRecordOf(opRec.ts)
    /\ (result.status \in {"BackupError", "false", "interrupted"} /\ result.stage \in UpToRename)
          => ~VisibleRecordOf(result.ts)

\* C3 witness: a call was interrupted at the rename step, its temporary file is left
C3_Witness ==
    /\ result.kind = "backup" /\ result.status = "interrupted" /\ result.stage = "bk_rename"
    /\ \E f \in DOMAIN bdir : f.ext = ".bak.tmp" /\ bdir[f].ts = result.ts

ValidCheckpoints(dir) == {id \in DOMAIN dir : dir[id].meta.valid}

(* C4: a visible record is never overwritten or changed by a later call, and the
   step that makes a new record visible raises the number of visible records by one *)
C4_FreshIdentifiers ==
    [][/\ \A f \in Canonical(bdir) : f \in DOMAIN bdir' => bdir'[f] = bdir[f]
       /\ \A id \in ValidCheckpoints(agentDir) :
              id \in DOMAIN agentDir' => agentDir'[id] = agentDir[id]
       /\ (opPc = "bk_rename" /\ opPc' = "bk_ckpt")
              => Cardinality(Canonical(bdir')) = Cardinality(Canonical(bdir)) + 1
       /\ (opPc = "ag_copy" /\ opPc' = "ag_store")
              => Cardinality(ValidCheckpoints(agentDir'))
                    = Cardinality(ValidCheckpoints(agentDir)) + 1
      ]_vars

(* C5: as long as a rollback of SmartBackupManager or CheckpointAgent has no safety
   backup, no working-tree file changes, the checkpoint file is touched by nothing
   but create_backup's own reference update, and if the call ends it reports failure *)
C5_SafetyFailureAborts ==
    [][(opKind = "rollback" /\ impl \in {"manager", "agent"} /\ opSafety = -1) =>
          /\ tree' = tree
          /\ ckpt' # ckpt => opPc = "bk_ckpt"
          /\ opKind' = "none" => result'.status \in {"false", "interrupted"}
      ]_vars

\* C5 witness: a rollback returned failure because its safety backup could not be
\* created, while the working tree differs from what the target holds
C5_Witness ==
    /\ result.kind = "rollback" /\ result.status = "false" /\ result.safety = -1
    /\ \/ /\ impl = "agent" /\ result.stage \in {"ag_begin", "ag_copy", "ag_store"}
          /\ \E id \in ValidCheckpoints(agentDir) :
                 \E q \in Paths : agentDir[id].files[q] \notin {0, tree[q]}
       \/ /\ impl = "manager" /\ result.stage \in UpToRename
          /\ \E f \in Readable(bdir) :
                 /\ bdir[f].snap.available
                 /\ \E q \in DOMAIN bdir[f].snap.files : bdir[f].snap.files[q] # tree[q]

\* what the record a finished rollback restored says about file q
ArchivedAsSaved ==
    CASE IsManager ->
            opTarget.snap.available =>
                \A q \in DOMAIN opTarget.snap.files : tree'[q] = opTarget.snap.files[q]
      [] impl = "agent" ->
            \A i \in 1..Len(opTarget.backed) :
                SemanticHashFile(opTarget.backed[i], tree'[opTarget.backed[i]])
                    = opTarget.hashes[opTarget.backed[i]]
      [] OTHER ->
            \A q \in BackupFiles(opTarget) : tree'[q] = opTarget.files[q]

(* C9: when a rollback returns without reporting an error, every file the target
   record archived has the content it had when the record was made *)
C9_RollbackRestoresArchived ==
    [][(opKind = "rollback" /\ opKind' = "none" /\ result'.status \in {"true", "ok"})
          => ArchivedAsSaved]_vars

\* the step deletes q
Deleted(q) ==
    IF q = CkptPath THEN ckpt # MissingCkpt /\ ckpt' = MissingCkpt
    ELSE tree[q] # 0 /\ tree'[q] = 0

(* C10: a rollback step deletes a file only in mirror mode, and then only a file
   outside .odin and .git that the target record does not contain *)
C10_MirrorOnlyDeletes ==
    [][opKind = "rollback" =>
          \A q \in AllFiles :
              Deleted(q) => /\ impl = "legacy"
                            /\ opTarget.mirror
                            /\ q[1] \notin {".odin", ".git"}
                            /\ q \notin BackupFiles(opTarget)]_vars

-----------------------------------------------------------------------------
(* Part 4: listing and pruning a populated backup store *)

TicksPerDay == 24 * 60 * 60 * TicksPerSecond
Days == 0..(MaxDays - 1)
KeepCounts == 0..MaxDays
DayStart(d) == d * TicksPerDay

\* a complete record create_backup left at tick ts
StoredBackup(ts) ==
    [name |-> GenerateBackupFilename(ts), ts |-> ts, complete |-> TRUE, reason |-> "manual",
     pre |-> DefaultCkpt, patch |-> NoPatch, snap |-> Unavailable]
\* the backups directory after one create_backup on each day of D
ManagerStore(D) ==
    [f \in {GenerateBackupFilename(DayStart(d)) : d \in D} |->
        StoredBackup(CHOOSE t \in {DayStart(d) : d \in D} : GenerateBackupFilename(t) = f)]

\* a checkpoint directory _create_checkpoint left at tick ts; "corrupt": checkpoint.json
\* was cut short
StoredCheckpoint(ts, kind) ==
    [files |-> [q \in Paths |-> IF q = FA THEN HeadContent ELSE 0],
     meta |-> [exists |-> TRUE, valid |-> kind # "corrupt", ts |-> ts,
               backed |-> <<FA>>, hashes |-> <<>>]]
AgentId(task, ts) == [task |-> task, sec |-> Second(ts)]
\* what each day left behind: nothing, a checkpoint of a task, or a corrupt checkpoint
DayChoices == Tasks \cup {"none", "corrupt"}
TaskOf(c) == IF c = "corrupt" THEN "t1" ELSE c
AgentStore(a) ==
    [id \in {AgentId(TaskOf(a[d]), DayStart(d)) : d \in {e \in Days : a[e] # "none"}} |->
        LET d == CHOOSE e \in Days : a[e] # "none" /\ AgentId(TaskOf(a[e]), DayStart(e)) = id
        IN StoredCheckpoint(DayStart(d), a[d])]

\* sorted(): the members of S as a sequence ascending by Less
Sorted(S, Less(_, _)) ==
    CHOOSE s \in [1..Cardinality(S) -> S] :
        /\ \A i \in 1..Cardinality(S) : \A j \in 1..Cardinality(S) : i < j => Less(s[i], s[j])
Reverse(s) == [i \in 1..Len(s) |-> s[Len(s) + 1 - i]]
\* Python s[:stop]
SliceTo(s, stop) ==
    IF stop < 0 THEN SubSeq(s, 1, Len(s) + stop)
    ELSE SubSeq(s, 1, IF stop < Len(s) THEN stop ELSE Len(s))
\* Python s[start:], start >= 0
SliceFrom(s, start) == SubSeq(s, start + 1, Len(s))
Range(s) == {s[i] : i \in 1..Len(s)}

(* list_backups: sorted(glob('*.bak.json'), reverse=True), unreadable files skipped *)
FileNameLess(f, g) == f.sec < g.sec
ListBackups(dir) == Reverse(Sorted(Readable(dir), FileNameLess))

(* cli list_backups --limit: backups[:limit] *)
MgrList(limit) ==
    /\ impl = "manager" /\ opKind = "none"
    /\ result' = [kind |-> "list", status |-> "ok", limit |-> limit,
                  items |-> [i \in DOMAIN SliceTo(ListBackups(bdir), limit) |->
                                bdir[SliceTo(ListBackups(bdir), limit)[i]].ts]]
    /\ UNCHANGED <<lockVars, cliVars, storeVars, opKind, opPc, opCaller, opRec, opTarget,
                   opSafety, opTodo, opErrs>>

\* directory names "<task_id>_<timestamp>" compared as strings
TaskRank(task) == IF task = "t1" THEN 1 ELSE 2
DirNameLess(a, b) ==
    \/ TaskRank(a.task) < TaskRank(b.task)
    \/ a.task = b.task /\ a.sec < b.sec
\* directories holding a checkpoint.json
WithMetadata(dir) == {id \in DOMAIN dir : dir[id].meta.exists}

\* _list_checkpoints: append, then `if len(checkpoints) >= limit: break`
TakeUntil(s, limit) == IF Len(s) = 0 THEN s ELSE SliceTo(s, IF limit < 1 THEN 1 ELSE limit)

(* _list_checkpoints(limit): sorted(iterdir(), reverse=True); json.loads of a corrupt
   checkpoint.json met before the limit raises *)
AgList(limit) ==
    /\ impl = "agent" /\ opKind = "none"
    /\ LET walk == Reverse(Sorted(WithMetadata(agentDir), DirNameLess))
           seen == TakeUntil(walk, limit)
       IN result' =
            IF \E i \in 1..Len(seen) : ~agentDir[seen[i]].meta.valid
            THEN [kind |-> "list", status |-> "failed", limit |-> limit, items |-> <<>>]
            ELSE [kind |-> "list", status |-> "ok", limit |-> limit,
                  items |-> [i \in DOMAIN seen |-> agentDir[seen[i]].meta.ts]]
    /\ UNCHANGED <<lockVars, cliVars, storeVars, opKind, opPc, opCaller, opRec, opTarget,
                   opSafety, opTodo, opErrs>>

\* (cutoff - created_at).days
AgeDays(t, created) == (t - created) \div TicksPerDay
CreatedLess(dir, a, b) == dir[a].meta.ts < dir[b].meta.ts

\* a cleanup that lets age alone decide
EveryCheckpoint(sorted, keep) == sorted
\* _cleanup_old_checkpoints, line 459: all but the keep_minimum newest
AllButNewest(sorted, keep) == IF Len(sorted) > keep THEN SliceTo(sorted, 0 - keep) ELSE <<>>

\* shutil.rmtree unlinks the entries of a directory one by one, in the order os.scandir
\* yields them, and stops where an unlink raises or the process is interrupted: what is
\* left of the directory it was working on
RmtreeStops == {"untouched", "files_gone", "manifest_gone"}
PartlyRemoved(dir, stop) ==
    CASE stop = "files_gone" -> [dir EXCEPT !.files = [q \in Paths |-> 0]]
      [] stop = "manifest_gone" -> [dir EXCEPT !.meta = NoMeta]
      [] OTHER -> dir

(* _cleanup_old_checkpoints(max_age_days, keep_minimum) *)
AgCleanup(keep, maxAge) ==
    /\ impl = "agent" /\ opKind = "none"
    /\ IF \E id \in WithMetadata(agentDir) : ~agentDir[id].meta.valid
       THEN \* json.loads raises while the list is built
            /\ result' = [kind |-> "cleanup", status |-> "failed", keep |-> keep, deleted |-> 0]
            /\ UNCHANGED agentDir
       ELSE LET Less(a, b) == CreatedLess(agentDir, a, b)
                sorted == Sorted(WithMetadata(agentDir), Less)
                toDelete == AllButNewest(sorted, keep)
                old == SelectSeq(toDelete,
                          LAMBDA id : AgeDays(now.t, agentDir[id].meta.ts) > maxAge)
            IN \E m \in 0..Len(old) :
               \E stop \in (IF m < Len(old) THEN RmtreeStops ELSE {"untouched"}) :
                  \* rmtree raises on entry m + 1
                  /\ agentDir' = [id \in DOMAIN agentDir \ Range(SubSeq(old, 1, m)) |->
                                     IF m < Len(old) /\ id = old[m + 1]
                                     THEN PartlyRemoved(agentDir[id], stop)
                                     ELSE agentDir[id]]
                  /\ result' = [kind |-> "cleanup",
                                status |-> IF m = Len(old) THEN "ok" ELSE "failed",
                                keep |-> keep, deleted |-> m]
    /\ UNCHANGED <<lockVars, cliVars, impl, handlers, subscriptions, baseline, now, tree, ckpt, logLen, bdir, legacyDir,
                   opKind, opPc, opCaller, opRec, opTarget, opSafety, opTodo, opErrs>>

CatalogInit ==
    /\ LockInit /\ OpInit
    /\ lockFile = NoFile
    /\ impl \in {"manager", "agent"}
    /\ baseline = Null
    /\ handlers = NoHandlers /\ subscriptions = <<>>
    \* the clock at a day boundary or one tick past it
    /\ now \in {[t |-> DayStart(MaxDays) + late, n |-> 0] : late \in {0, 1}}
    /\ tree = HeadTree
    /\ ckpt = ScaffoldCkpt
    /\ logLen = 0
    /\ legacyDir = NoLegacy
    /\ bdir \in (IF impl = "manager" THEN {ManagerStore(D) : D \in SUBSET Days} ELSE {<<>>})
    /\ agentDir \in (IF impl = "agent" THEN {AgentStore(a) : a \in [Days -> DayChoices]}
                     ELSE {<<>>})

CatalogNext ==
    \/ \E keep \in KeepCounts : MgrCleanup(keep)
    \/ \E limit \in KeepCounts : MgrList(limit)
    \/ \E keep \in KeepCounts, maxAge \in KeepCounts : AgCleanup(keep, maxAge)
    \/ \E limit \in KeepCounts : AgList(limit)

SpecCatalog == CatalogInit /\ [][CatalogNext]_vars

-----------------------------------------------------------------------------
(* Part 5: semantic integrity hashing (agents/shared/integrity.py) *)

\* hashes a snapshot may hold for a path
HashValues == {Sha256(c) : c \in 1..MaxContent}
\* Dict[str, str] as a mapping: every snapshot over the model's paths
Snapshots == UNION {[K -> HashValues] : K \in SUBSET Paths}
\* a dict as Python keeps it: its items in insertion order, no key twice
Dicts ==
    {d \in UNION {[1..n -> Paths \X HashValues] : n \in 0..Cardinality(Paths)} :
        \A i \in DOMAIN d : \A j \in DOMAIN d : i # j => d[i][1] # d[j][1]}
Keys(d) == {d[i][1] : i \in DOMAIN d}
\* dict equality: the mapping the items stand for
AsMapping(d) == [k \in Keys(d) |-> d[CHOOSE i \in DOMAIN d : d[i][1] = k][2]]

\* a comparison that calls every common file modified
CommonKeys(old, new) == DOMAIN old \cap DOMAIN new
\* compare_sih, line 230
ModifiedKeys(old, new) == {f \in DOMAIN old \cap DOMAIN new : old[f] # new[f]}
\* compare_sih, line 231
UnchangedKeys(old, new) == {f \in DOMAIN old \cap DOMAIN new : old[f] = new[f]}

(* compare_sih *)
CompareSih(old, new) ==
    [added |-> InOrder(DOMAIN new \ DOMAIN old),
     removed |-> InOrder(DOMAIN old \ DOMAIN new),
     modified |-> InOrder(ModifiedKeys(old, new)),
     unchanged |-> InOrder(UnchangedKeys(old, new))]

\* a combined hash that joins the items as the dict yields them
InsertionItems(d) == d
\* sorted(sih.items()): the items ascending by path
SortedItems(d) == [i \in DOMAIN d |-> <<InOrder(Keys(d))[i], AsMapping(d)[InOrder(Keys(d))[i]]>>]
\* "".join(f"{path}:{hash_val}" ...)
RECURSIVE Join(_)
Join(items) ==
    IF items = <<>> THEN <<>>
    ELSE <<Head(items)[1], ":", Head(items)[2]>> \o Join(Tail(items))
(* compute_project_hash *)
ComputeProjectHash(d) == Sha256(Join(SortedItems(d)))

\* the functions below keep no state: a behaviour of their specification is one call
IntRest == <<lockVars, cliVars, impl, handlers, subscriptions, baseline, now, tree, ckpt, logLen, bdir, agentDir, legacyDir,
             opKind, opPc, opCaller, opRec, opTarget, opSafety, opTodo, opErrs>>

(* compare_sih(old, new) called on two snapshots *)
CallCompareSih(old, new) ==
    /\ impl = "sih" /\ result = NoResult
    /\ result' = [kind |-> "compare_sih", old |-> old, new |-> new,
                  value |-> CompareSih(old, new)]
    /\ UNCHANGED IntRest

\* project roots and ignore sets a caller may pass
Roots == {RootParts, <<"/", "home", "build", "proj">>}
IgnoreSets == {DefaultIgnores, {}, {"a.py"}, {"src"}}
\* content of a file whose read raises (no read permission)
Unreadable == -1
Trees == [Paths -> {0, HeadContent, Unreadable}]

\* semantic_hash_file on an unreadable file: read_text raises, the handler at
\* 143-144 logs it, and the fallback sha256_file reads again and raises
SemanticHashFileRaises(c) == c = Unreadable
\* project_sih: the comprehension has no handler, one raise ends the call
ProjectSihOutcome(tr, root, ignores) ==
    IF \E q \in WalkFiles(tr, root, ignores) : SemanticHashFileRaises(tr[q])
    THEN [status |-> "raised", value |-> <<>>]
    ELSE [status |-> "ok", value |-> ProjectSih(tr, root, ignores)]

(* project_sih(root, ignores) called on a tree *)
CallProjectSih(tr, root, ignores) ==
    /\ impl = "sih" /\ result = NoResult
    /\ result' = [kind |-> "project_sih", tree |-> tr, root |-> root, ignores |-> ignores,
                  status |-> ProjectSihOutcome(tr, root, ignores).status,
                  value |-> ProjectSihOutcome(tr, root, ignores).value]
    /\ UNCHANGED IntRest

\* further files a project may hold: a compiled file in a cache directory
\* below src, a data file below src, and a stored backup
FC == <<"src", "__pycache__", "b.pyc">>
FD == <<"src", "data.bin">>
FK == <<".odin", "backups", "backup.json">>
ProjectPaths == Paths \cup {FC, FD, FK}

\* members of the archive _create_working_tree_snapshot writes for the files present
ArchiveMembers(present) == {q \in present : InSnapshot(q)}
\* files _calculate_project_hash feeds to the hasher
HashedFiles(present) == {q \in present : ShouldIncludeInSnapshot(Abs(q), TRUE)}

(* create_backup's archive and project hash computed on a set of files *)
CallSnapshotSets(present) ==
    /\ impl = "sih" /\ result = NoResult
    /\ result' = [kind |-> "snapshot", present |-> present,
                  archived |-> ArchiveMembers(present), hashed |-> HashedFiles(present)]
    /\ UNCHANGED IntRest

(* The byte strings that are hashed, as text: a text is a sequence of pieces, and
   joining texts concatenates their pieces *)
H1 == <<"h1">>                       \* two hex digests
H2 == <<"h2">>
TA == <<"a">>                        \* files named a, b, `a:<h1>b` and `a:<h1>|b`
TB == <<"b">>
TAB == <<"a", ":", "h1", "b">>
TAP == <<"a", ":", "h1", "|", "b">>
\* the names ascending as Python compares str
TextOrder == <<TA, TAB, TAP, TB>>
SihTexts == UNION {[K -> {H1, H2}] : K \in SUBSET {TA, TAB, TAP, TB}}
\* sorted(sih.items()) as "path:hash" texts
ItemTexts(sih) ==
    [i \in 1..Cardinality(DOMAIN sih) |->
        LET k == SelectSeq(TextOrder, LAMBDA t : t \in DOMAIN sih)[i] IN k \o <<":">> \o sih[k]]
\* sep.join(texts)
RECURSIVE JoinTexts(_, _)
JoinTexts(texts, sep) ==
    IF texts = <<>> THEN <<>>
    ELSE IF Len(texts) = 1 THEN texts[1]
    ELSE texts[1] \o sep \o JoinTexts(Tail(texts), sep)
\* compute_project_hash: the text given to sha256_bytes
ComputeProjectHashInput(sih) == JoinTexts(ItemTexts(sih), <<>>)
\* context_signature: the payload, for a working directory without marker files
MarkerTexts == <<<<"requirements.txt", ":">>, <<"pyproject.toml", ":">>, <<"package.json", ":">>>>
ContextSignatureInput(sih) == JoinTexts(ItemTexts(sih) \o MarkerTexts, <<"|">>)

\* files of a project by absolute posix path, and the contents they may have
PA == <<"/home/proj/a.py">>
PB == <<"/home/proj/b.py">>
FileTexts == {<<>>, <<"x">>, PB \o <<"x">>}
ProjectTexts == UNION {[K -> FileTexts] : K \in SUBSET {PA, PB}}
\* _calculate_project_hash: the bytes given to the hasher, path then content
RECURSIVE CalculateProjectHashInput(_, _)
CalculateProjectHashInput(files, todo) ==
    IF todo = <<>> THEN <<>>
    ELSE (IF Head(todo) \in DOMAIN files THEN Head(todo) \o files[Head(todo)] ELSE <<>>)
         \o CalculateProjectHashInput(files, Tail(todo))

HashInputOf(fn, state) ==
    CASE fn = "compute_project_hash" -> ComputeProjectHashInput(state)
      [] fn = "context_signature" -> ContextSignatureInput(state)
      [] fn = "_calculate_project_hash" -> CalculateProjectHashInput(state, <<PA, PB>>)
StatesOf(fn) == IF fn = "_calculate_project_hash" THEN ProjectTexts ELSE SihTexts
HashFunctions == {"compute_project_hash", "context_signature", "_calculate_project_hash"}

(* one of the project hashes computed for two project states *)
CallHashTwice(fn, a, b) ==
    /\ impl = "sih" /\ result = NoResult
    /\ result' = [kind |-> "hash_input", fn |-> fn, a |-> a, b |-> b,
                  ina |-> HashInputOf(fn, a), inb |-> HashInputOf(fn, b)]
    /\ UNCHANGED IntRest

(* compute_project_hash(sih) called on a dict *)
CallComputeProjectHash(d) ==
    /\ impl = "sih" /\ result = NoResult
    /\ result' = [kind |-> "compute_project_hash", sih |-> d, value |-> ComputeProjectHash(d)]
    /\ UNCHANGED IntRest

(* Python sources as text: a file is a sequence of lines, a line has its leading
   whitespace, its statement and its trailing comment *)
Statements == {"stmt", "block", "none"}   \* x=1, a header like `if x:`, no code on the line
LineShapes == [indent : 0..1, code : Statements, comment : 0..1]
Sources == UNION {[1..n -> LineShapes] : n \in 0..MaxLines}

\* lines the tokenizer hands to the parser: blank and comment-only lines carry no code
CodeLines(src) == SelectSeq(src, LAMBDA l : l.code # "none")
\* ast.parse accepts: the first statement starts at column 0, a header is followed by a
\* deeper line, any other line continues an open block
ParsesAsPython(src) ==
    LET c == CodeLines(src) IN
    /\ Len(c) > 0 => c[1].indent = 0
    /\ \A i \in 1..Len(c) :
          IF c[i].code = "block"
          THEN i < Len(c) /\ c[i + 1].indent > c[i].indent
          ELSE i < Len(c) => c[i + 1].indent <= c[i].indent
\* ast.dump(tree, include_attributes=False): the statements and their nesting
AstDump(src) == <<"Module", [i \in DOMAIN CodeLines(src) |->
                                <<CodeLines(src)[i].indent, CodeLines(src)[i].code>>]>>

\* textwrap.dedent: the margin common to the lines that are not blank is removed
Dedent(src) ==
    LET inked == {i \in DOMAIN src : src[i].code # "none" \/ src[i].comment # 0}
        margin == IF \E i \in inked : src[i].indent = 0 THEN 0
                  ELSE IF inked = {} THEN 0 ELSE 1
    IN [i \in DOMAIN src |->
          [src[i] EXCEPT !.indent = IF i \in inked THEN src[i].indent - margin ELSE 0]]
\* re.sub(r'^\s+', '', src, flags=re.MULTILINE): every line loses its leading whitespace
StripLineStarts(src) == [i \in DOMAIN src |-> [src[i] EXCEPT !.indent = 0]]

\* sha256_file: the hash of the bytes as they are
RawHash(src) == Sha256(<<"bytes", src>>)

(* odin/integrity.py normalize_python_ast and semantic_hash_file: an exception of
   ast.parse falls back to the raw hash *)
OdinSemanticHashFile(src) ==
    LET text == StripLineStarts(Dedent(src))
    IN IF ParsesAsPython(text) THEN Sha256(AstDump(text)) ELSE RawHash(src)

(* agents/shared/integrity.py normalize_python_ast and semantic_hash_file for a .py file *)
SharedSemanticHashFile(src) ==
    LET text == Dedent(src)
    IN IF ParsesAsPython(text) THEN Sha256(AstDump(text)) ELSE RawHash(src)

SemanticHashOf(variant, src) ==
    IF variant = "odin" THEN OdinSemanticHashFile(src) ELSE SharedSemanticHashFile(src)

(* semantic_hash_file(path) called on a .py file holding src *)
CallSemanticHashFile(variant, src) ==
    /\ impl = "sih" /\ result = NoResult
    /\ result' = [kind |-> "semantic_hash_file", variant |-> variant, src |-> src,
                  value |-> SemanticHashOf(variant, src), raw |-> RawHash(src)]
    /\ UNCHANGED IntRest

\* an Optional that is not None
Some(v) == [none |-> FALSE, value |-> v]
\* project_sih(self.root, self.ignores)
CurrentSih(tr) == ProjectSih(tr, RootParts, DefaultIgnores)
\* a check that compares the current tree with itself
DriftFromCurrent(b, tr) == CompareSih(CurrentSih(tr), CurrentSih(tr))
\* check_drift, lines 293-294
DriftFrom(b, tr) == CompareSih(b, CurrentSih(tr))

(* IntegrityMonitor.capture_baseline *)
CaptureBaseline ==
    /\ impl = "monitor"
    /\ baseline' = Some(CurrentSih(tree))
    /\ result' = [kind |-> "capture_baseline", status |-> "ok", value |-> CurrentSih(tree)]
    /\ UNCHANGED <<lockVars, cliVars, impl, handlers, subscriptions, now, tree, ckpt, logLen,
                   bdir, agentDir, legacyDir,
                   opKind, opPc, opCaller, opRec, opTarget, opSafety, opTodo, opErrs>>

(* IntegrityMonitor.check_drift *)
CheckDrift ==
    /\ impl = "monitor"
    /\ result' = IF baseline = Null
                 THEN [kind |-> "check_drift", status |-> "ValueError", value |-> Null]
                 ELSE [kind |-> "check_drift", status |-> "ok",
                       value |-> DriftFrom(baseline.value, tree)]
    /\ UNCHANGED IntRest

(* IntegrityMonitor.has_changes *)
HasChanges ==
    /\ impl = "monitor"
    /\ result' = IF baseline = Null
                 THEN [kind |-> "has_changes", status |-> "ValueError", value |-> Null]
                 ELSE LET drift == DriftFrom(baseline.value, tree)
                      IN [kind |-> "has_changes", status |-> "ok",
                          value |-> (drift.added # <<>> \/ drift.removed # <<>>
                                     \/ drift.modified # <<>>)]
    /\ UNCHANGED IntRest

IntegrityInit(which) ==
    /\ LockInit /\ OpInit
    /\ lockFile = NoFile
    /\ impl = which
    /\ baseline = Null
    /\ handlers = NoHandlers /\ subscriptions = <<>>
    /\ now = [t |-> 0, n |-> 0]
    /\ tree = HeadTree
    /\ ckpt = ScaffoldCkpt
    /\ logLen = 0
    /\ bdir = <<>> /\ agentDir = <<>>
    /\ legacyDir = NoLegacy

MonitorInit == IntegrityInit("monitor")
MonitorNext ==
    \/ \E p \in Paths, c \in Contents : Edit(p, c)
    \/ CaptureBaseline
    \/ CheckDrift
    \/ HasChanges

SpecMonitor == MonitorInit /\ [][MonitorNext]_vars

SihInit == IntegrityInit("sih")
SihNext ==
    \/ \E old \in Snapshots, new \in Snapshots : CallCompareSih(old, new)
    \/ \E d \in Dicts : CallComputeProjectHash(d)
    \/ \E variant \in {"odin", "shared"}, src \in Sources : CallSemanticHashFile(variant, src)
    \/ \E tr \in Trees, root \in Roots, ignores \in IgnoreSets : CallProjectSih(tr, root, ignores)
    \/ \E present \in SUBSET ProjectPaths : CallSnapshotSets(present)
    \/ \E fn \in HashFunctions : \E a \in StatesOf(fn), b \in StatesOf(fn) : CallHashTwice(fn, a, b)

SpecSih == SihInit /\ [][SihNext]_vars

-----------------------------------------------------------------------------
(* Part 6: backup before write (odin/backup_decorator.py, OdinCore.safe_write_file) *)

(* a function decorated with @with_backup is called: SmartBackupManager().create_backup *)
WithBackupCall ==
    /\ impl = "guard" /\ opKind = "none" /\ now.n < MaxOps
    /\ BkEnter("with_backup", NoProc, FA)
    /\ UNCHANGED <<lockVars, cliVars, result, BkStoreRest, ckpt, logLen, bdir>>

(* safe_write_file / safe_write_json over an existing file: ensure_backup_before_write
   finds files_exist and calls create_backup *)
SafeWriteFile(q) ==
    /\ impl = "guard" /\ opKind = "none" /\ now.n < MaxOps
    /\ tree[q] # 0
    /\ BkEnter("safe_write", NoProc, q)
    /\ UNCHANGED <<lockVars, cliVars, result, BkStoreRest, ckpt, logLen, bdir>>

(* safe_write_file of a file that does not exist yet: no backup is asked for *)
SafeWriteNewFile(q, c) ==
    /\ impl = "guard" /\ opKind = "none"
    /\ tree[q] = 0 /\ c # 0
    /\ tree' = [tree EXCEPT ![q] = c]
    /\ result' = [kind |-> "safe_write", status |-> "true", stage |-> "func", ts |-> -1,
                  safety |-> -1]
    /\ UNCHANGED <<lockVars, cliVars, impl, handlers, subscriptions, baseline, now, ckpt, logLen, bdir, agentDir, legacyDir,
                   opKind, opPc, opCaller, opRec, opTarget, opSafety, opTodo, opErrs>>

(* the decorated function, or the write of safe_write_file, runs and returns *)
RunProtected(c) ==
    /\ impl = "guard" /\ opPc = "func"
    /\ c \in EditContents(opTarget)
    /\ tree' = [tree EXCEPT ![opTarget] = c]
    /\ \E logged \in BOOLEAN :
          logLen' = IF logged /\ opKind = "with_backup" THEN logLen + 1 ELSE logLen
    /\ EndOp(OpResult("true"))
    /\ UNCHANGED <<lockRest, impl, handlers, subscriptions, baseline, now, ckpt, bdir, agentDir, legacyDir>>

\* what a decorated function may raise
Raisable == {"Exception", "BackupError"}
\* the file as the function leaves it when it raises: written or not
LeftBy(q) == EditContents(q) \cup {tree[q]}

(* the decorated function raises: inside the try body (lines 64-90) the handler
   logs and re-raises, and the outer `except BackupError` (92-96) takes a
   BackupError and calls the function again; raised from that handler's own call
   the exception reaches the caller *)
RunProtectedRaises(c, exc) ==
    /\ impl = "guard" /\ opPc = "func" /\ opKind = "with_backup"
    /\ c \in LeftBy(opTarget)
    /\ tree' = [tree EXCEPT ![opTarget] = c]
    /\ \E logged \in BOOLEAN :
          logLen' = IF logged /\ opSafety # -1 THEN logLen + 1 ELSE logLen
    /\ IF exc = "BackupError" /\ opSafety # -1
       THEN /\ opPc' = "func_again"
            /\ UNCHANGED <<opKind, opCaller, opRec, opTarget, opSafety, opTodo, opErrs, result,
                           pc, cmd>>
       ELSE EndOp(OpResult("raised"))
    /\ UNCHANGED <<lockRest, impl, handlers, subscriptions, baseline, now, ckpt, bdir, agentDir, legacyDir>>

(* line 96 after the function itself raised BackupError: the function is called
   again and its outcome is the call's *)
RunProtectedAgain(c, raises) ==
    /\ impl = "guard" /\ opPc = "func_again"
    /\ c \in (IF raises THEN LeftBy(opTarget) ELSE EditContents(opTarget))
    /\ tree' = [tree EXCEPT ![opTarget] = c]
    /\ EndOp(OpResult(IF raises THEN "raised" ELSE "true"))
    /\ UNCHANGED <<lockRest, impl, handlers, subscriptions, baseline, now, ckpt, logLen, bdir, agentDir, legacyDir>>

GuardInit ==
    /\ LockInit /\ OpInit /\ EmptyStore
    /\ lockFile = NoFile
    /\ impl = "guard"
    /\ baseline = Null
    /\ handlers = NoHandlers /\ subscriptions = <<>>
    /\ ckpt \in {MissingCkpt, ScaffoldCkpt}
    /\ legacyDir = NoLegacy

GuardNext ==
    \/ Tick
    \/ WithBackupCall
    \/ \E q \in {FA, FG} : SafeWriteFile(q)
    \/ \E q \in {FA, FG}, c \in Contents : SafeWriteNewFile(q, c)
    \/ BkGather
    \/ BkWriteTmp
    \/ BkRename
    \/ BkUpdateCkpt
    \/ BkLog
    \/ \E c \in Contents : RunProtected(c)
    \/ \E c \in Contents, exc \in Raisable : RunProtectedRaises(c, exc)
    \/ \E c \in Contents, raises \in BOOLEAN : RunProtectedAgain(c, raises)

SpecGuard == GuardInit /\ [][GuardNext]_vars

-----------------------------------------------------------------------------
(* Properties of listing and pruning *)

Max(a, b) == IF a > b THEN a ELSE b
Min(a, b) == IF a < b THEN a ELSE b

\* what a pruning of `before` into `after` with keep_minimum k must respect; Newer(f) are
\* the records of `before` created after f
PruneBound(before, after, k, Newer(_)) ==
    LET n == Cardinality(before)
        deleted == before \ after
    IN /\ after \subseteq before
       /\ Cardinality(deleted) <= Max(0, n - k)
       /\ Cardinality(before \cap after) >= Min(n, k)
       /\ \A f \in deleted : Cardinality(Newer(f)) >= k

MgrPruneBound(k) ==
    LET Newer(f) == {g \in Readable(bdir) : g.sec > f.sec}
    IN PruneBound(DOMAIN bdir, DOMAIN bdir', k, Newer)
AgPruneBound(k) ==
    LET Newer(f) == {g \in DOMAIN agentDir : agentDir[g].meta.ts > agentDir[f].meta.ts}
    IN PruneBound(DOMAIN agentDir, DOMAIN agentDir', k, Newer)

\* C11: a prune over n backups with keep_minimum k deletes at most max(0, n - k) of them,
\* leaves at least min(n, k), and never deletes one of the k most recently created
C11_PruneKeepsNewest ==
    [][\A k \in KeepCounts :
          /\ MgrCleanup(k) => MgrPruneBound(k)
          /\ (\E maxAge \in KeepCounts : AgCleanup(k, maxAge)) => AgPruneBound(k)]_vars
\* a prune with a positive keep_minimum has deleted checkpoints and left exactly that many
C11_Witness ==
    /\ impl = "agent"
    /\ result.kind = "cleanup" /\ result.keep > 0 /\ result.deleted > 0
    /\ Cardinality(DOMAIN agentDir) = result.keep

-----------------------------------------------------------------------------
(* Properties of error reporting *)

\* the steps of create_backup that write the record: the dump into the temporary file and
\* the rename
RecordWrite == {"bk_tmp", "bk_rename"}

\* C12: create_backup ends in BackupError only when writing the record (the dump or the
\* rename) failed; a failure while gathering or after the rename, when the record is
\* already visible, does not become a BackupError
C12_BackupErrorOnlyFromRecordWrite ==
    (result.kind = "backup" /\ result.status = "BackupError") => result.stage \in RecordWrite


\* the safety backup id in what a rollback hands back: rollback_to returns a bare bool;
\* _rollback returns data.safety_checkpoint from its last return statement only
SafetyReturned(r) ==
    IF impl = "agent" /\ r.stage = "ag_restore" /\ r.status \in {"true", "false"}
    THEN r.safety ELSE -1

\* C13: a rollback that got past creating its safety backup returns the id of that
\* safety backup to the caller, whether restoring succeeded, failed partly or raised
C13_SafetyIdReturned ==
    (result.kind = "rollback" /\ result.status # "interrupted" /\ result.safety # -1)
        => SafetyReturned(result) = result.safety


\* a step in which a rollback that already holds its safety backup returns
RollbackReturns ==
    /\ opKind = "rollback" /\ opSafety # -1
    /\ opKind' = "none" /\ result'.status # "interrupted"

\* C14: once the safety backup exists a rollback never raises to its caller, and it
\* reports success exactly when no file restoration failed
C14_SuccessIffNoRestoreFailure ==
    [][RollbackReturns =>
          /\ result'.status \in {"true", "false", "raised"}
          /\ (result'.status = "true") => opErrs = {}
          /\ (opPc \in {"rb_finish", "ag_restore"} /\ opTodo = <<>> /\ opErrs = {})
                => result'.status = "true"]_vars

-----------------------------------------------------------------------------
(* Properties of semantic integrity hashing *)

NoDuplicates(s) == Cardinality(Range(s)) = Len(s)

\* C15: compare_sih(old, new) returns added = keys(new) \ keys(old), removed =
\* keys(old) \ keys(new), modified = the common keys whose hashes differ, unchanged = the
\* common keys whose hashes are equal; the four are pairwise disjoint, list no key twice,
\* and together are keys(old) \cup keys(new)
C15_CompareSihPartitions ==
    result.kind = "compare_sih" =>
        LET old == result.old
            new == result.new
            A == Range(result.value.added)
            R == Range(result.value.removed)
            M == Range(result.value.modified)
            U == Range(result.value.unchanged)
        IN /\ A = DOMAIN new \ DOMAIN old
           /\ R = DOMAIN old \ DOMAIN new
           /\ M = {k \in DOMAIN old \cap DOMAIN new : old[k] # new[k]}
           /\ U = {k \in DOMAIN old \cap DOMAIN new : old[k] = new[k]}
           /\ A \cap R = {} /\ A \cap M = {} /\ A \cap U = {}
           /\ R \cap M = {} /\ R \cap U = {} /\ M \cap U = {}
           /\ A \cup R \cup M \cup U = DOMAIN old \cup DOMAIN new
           /\ NoDuplicates(result.value.added) /\ NoDuplicates(result.value.removed)
           /\ NoDuplicates(result.value.modified) /\ NoDuplicates(result.value.unchanged)
\* a comparison that found an added, a modified and an unchanged file
C15_Witness ==
    /\ result.kind = "compare_sih"
    /\ result.value.added # <<>> /\ result.value.modified # <<>>
    /\ result.value.unchanged # <<>>

\* C16: check_drift fails with the no-baseline error exactly when no baseline was captured;
\* otherwise it reports the diff between the snapshot the most recent capture_baseline
\* stored and the current tree; check_drift, has_changes and edits leave the baseline alone
C16_DriftAgainstLastCapture ==
    [][/\ CaptureBaseline => (baseline' = Some(CurrentSih(tree)) /\ baseline' # Null)
       /\ (CheckDrift \/ HasChanges \/ \E p \in Paths, c \in Contents : Edit(p, c))
             => baseline' = baseline
       /\ CheckDrift =>
             /\ (result'.status = "ValueError") <=> (baseline = Null)
             /\ baseline # Null =>
                   LET cur == CurrentSih(tree)
                       base == baseline.value
                       d == result'.value
                   IN /\ result'.status = "ok"
                      /\ Range(d.added) = DOMAIN cur \ DOMAIN base
                      /\ Range(d.removed) = DOMAIN base \ DOMAIN cur
                      /\ Range(d.modified) =
                            {k \in DOMAIN cur \cap DOMAIN base : cur[k] # base[k]}
                      /\ Range(d.unchanged) =
                            {k \in DOMAIN cur \cap DOMAIN base : cur[k] = base[k]}
       /\ HasChanges =>
             /\ (result'.status = "ValueError") <=> (baseline = Null)
             /\ baseline # Null => (result'.value <=> (CurrentSih(tree) # baseline.value))]_vars
\* check_drift has reported a file modified since the captured baseline
C16_Witness ==
    /\ impl = "monitor" /\ baseline # Null
    /\ result.kind = "check_drift" /\ result.status = "ok"
    /\ result.value.modified # <<>>
    /\ baseline.value # CurrentSih(tree)

\* C18: compute_project_hash gives the same value for any two snapshots that are equal as
\* mappings, whatever the order their entries were inserted in
C18_ProjectHashOrderIndependent ==
    result.kind = "compute_project_hash" =>
        \A d \in Dicts :
            AsMapping(d) = AsMapping(result.sih) => ComputeProjectHash(d) = result.value
\* a project hash was computed from a snapshot whose insertion order is not the sorted one
C18_Witness ==
    /\ result.kind = "compute_project_hash"
    /\ Len(result.sih) >= 2
    /\ result.sih # SortedItems(result.sih)


\* two Python files that differ only in comments or in whitespace that carries no
\* structure: both parse, and their statements and nesting are the same
SameCode(a, b) ==
    /\ ParsesAsPython(a) /\ ParsesAsPython(b)
    /\ AstDump(a) = AstDump(b)

\* C17: Python contents that differ only in comments or whitespace, indented blocks
\* included, get the same semantic_hash_file while their raw hashes differ
C17_CommentsDoNotChangeHash ==
    result.kind = "semantic_hash_file" =>
        \A other \in Sources :
            (SameCode(result.src, other) /\ other # result.src) =>
                /\ SemanticHashOf(result.variant, other) = result.value
                /\ RawHash(other) # result.raw


\* creation times of the records a listing can return
ListedStore ==
    IF impl = "manager" THEN {bdir[f].ts : f \in Readable(bdir)}
    ELSE {agentDir[id].meta.ts : id \in WithMetadata(agentDir)}

\* C19: a listing returns the records in non-increasing order of creation time, and with a
\* limit it returns the `limit` most recently created ones, also across task ids
C19_ListingNewestFirst ==
    [][((\E limit \in KeepCounts : MgrList(limit) \/ AgList(limit))
            /\ result'.status = "ok" /\ result'.limit > 0) =>
          LET items == result'.items IN
          /\ \A i \in DOMAIN items : \A j \in DOMAIN items : i < j => items[i] >= items[j]
          /\ Len(items) = Min(result'.limit, Cardinality(ListedStore))
          /\ \A t \in ListedStore \ Range(items) : \A i \in DOMAIN items : items[i] >= t]_vars


-----------------------------------------------------------------------------
(* Properties of backup before write *)

\* C20: whenever a function wrapped by with_backup, or the write of safe_write_file over
\* an existing file, starts, a backup record created by that same call is in the store
C20_ProtectedWriteHasBackup ==
    (opKind \in Guarded /\ opPc = "func") =>
        /\ opSafety # -1
        /\ \E f \in Readable(bdir) : bdir[f].ts = opRec.ts


-----------------------------------------------------------------------------
(* Properties of re-entrant locking and of the restore loop *)

\* a step of p inside ensure_single_instance or lock_instance
AcquireStep(p) ==
    \/ EsiCheck(p) \/ EsiShutdownNothing(p) \/ EsiShutdownKilled(p)
    \/ EsiShutdownDenied(p) \/ EsiShutdownFailed(p) \/ EsiCreate(p)
    \/ LockInstanceCheck(p) \/ LockInstanceWrite(p)
\* p acquired the lock, has not released it, and the lock file is the one it wrote
HoldsOwnLock(p) == alive[p] /\ holds[p] /\ lockFile \in {PidText(p), LockedText}

\* C21: when a process acquires the instance lock again without having released it, the
\* acquisition does not fail with an exception, the process keeps running, and on return
\* the lock file is still the one it wrote
C21_ReacquireSucceeds ==
    [][\A p \in Procs :
          (HoldsOwnLock(p) /\ AcquireStep(p)) =>
              /\ alive'[p]
              /\ res'[p] # "raised"
              /\ (pc'[p] = "idle" /\ res'[p] = "true")
                    => lockFile' \in {PidText(p), LockedText}]_vars


\* the error list a rollback hands back: _rollback returns data.errors, rollback_to and
\* _restore_from_snapshot return a bare bool
ReportedErrors(errs) == IF impl = "agent" THEN errs ELSE {}

\* C22: in the restore step of a rollback a file that cannot be restored does not stop the
\* restoration: every other file of the target record is restored and each failed file is
\* in the returned error list
C22_RestoreIsBestEffort ==
    [][/\ (RbRestoreSnapshot /\ opTarget.snap.available) =>
             \A q \in Restorable(opTarget.snap) :
                 tree'[q] = opTarget.snap.files[q] \/ q \in ReportedErrors(opErrs')
       /\ AgRestore =>
             /\ opPc' = "ag_restore" /\ opTodo' = Tail(opTodo)
             /\ LET h == Head(opTodo) IN
                   agentDir[opTarget.id].files[h] # 0 =>
                       (tree'[h] = agentDir[opTarget.id].files[h]
                            \/ h \in ReportedErrors(opErrs'))]_vars


\* the records prune is meant to delete: outside the k most recently created and older
\* than maxAge days
Prunable(k, maxAge) ==
    {id \in WithMetadata(agentDir) :
        /\ Cardinality({g \in WithMetadata(agentDir) :
                           agentDir[g].meta.ts > agentDir[id].meta.ts}) >= k
        /\ now.t - agentDir[id].meta.ts > maxAge * TicksPerDay}

\* C23: a prune that ran to its end has deleted exactly the records that are both outside
\* the keep_minimum most recent and older than max_age, also for keep_minimum = 0 and for
\* an age that exceeds max_age by less than a day
C23_PruneDeletesExactly ==
    [][\A k \in KeepCounts, maxAge \in KeepCounts :
          (AgCleanup(k, maxAge) /\ result'.status = "ok") =>
              DOMAIN agentDir \ DOMAIN agentDir' = Prunable(k, maxAge)]_vars


\* C24: while prune deletes a record, and if it is interrupted, the manifest goes before
\* any other content: no record directory has its checkpoint.json while some of its
\* backed-up files are already gone
C24_ManifestRemovedFirst ==
    \A id \in DOMAIN agentDir :
        agentDir[id].meta.exists =>
            \A i \in DOMAIN agentDir[id].meta.backed :
                agentDir[id].files[agentDir[id].meta.backed[i]] # 0


(* Properties of the project walk *)
IgnoredBelowRoot(q, ignores) == \E i \in 1..(Len(q) - 1) : q[i] \in ignores

\* C25: project_sih(root, ignore_names) holds a file exactly when no directory
\* on its path relative to root is named in ignore_names, whatever the
\* directories above root are called, whatever the file itself is called, and
\* also when the set passed is empty.
C25_IgnoreOnlyDirsBelowRoot ==
    (result # NoResult /\ result.kind = "project_sih" /\ result.status = "ok") =>
        \A q \in Paths :
            q \in DOMAIN result.value
                <=> (result.tree[q] # 0 /\ ~IgnoredBelowRoot(q, result.ignores))


\* C26: when a file of the project cannot be read, project_sih still returns
\* normally: the result holds the hashes of the readable files it walks, the
\* unreadable file is left out, and no error reaches the caller.
C26_UnreadableFileSkipped ==
    (result # NoResult /\ result.kind = "project_sih") =>
        /\ result.status = "ok"
        /\ \A q \in WalkFiles(result.tree, result.root, result.ignores) :
               q \in DOMAIN result.value <=> result.tree[q] # Unreadable


(* Properties of the archive's file set *)
PassesInclusion(q) == ShouldIncludeInSnapshot(Abs(q), TRUE)
UnderExcludedDir(q) ==
    \/ \E i \in 1..(Len(q) - 1) : q[i] \in ExcludePatterns
    \/ \E i \in 1..(Len(q) - 2) : q[i] = ".odin" /\ q[i + 1] = "backups"

\* C27: the files in the archive are exactly the regular files that pass the
\* inclusion predicate, and exactly the files hashed into
\* project_integrity_hash; no archived file lies under .odin/backups, under
\* version-control metadata or under an excluded directory nested in an
\* included one, and none has an extension outside the allow-list.
C27_ArchiveEqualsHashedSet ==
    (result # NoResult /\ result.kind = "snapshot") =>
        /\ result.archived = {q \in result.present : PassesInclusion(q)}
        /\ result.archived = result.hashed
        /\ \A q \in result.archived :
               /\ ~UnderExcludedDir(q)
               /\ Suffix(Last(q)) \in ImportantExtensions \/ Last(q) \in SpecialNames


\* C28: the text that is hashed determines the project state: compute_project_hash,
\* _calculate_project_hash and context_signature never give two different
\* snapshots the same input to the hash, also when a path contains ':' or a
\* content contains another file's path.
C28_HashInputDeterminesState ==
    (result # NoResult /\ result.kind = "hash_input" /\ result.a # result.b) =>
        result.ina # result.inb


\* executions of the decorated function the call in flight has behind it
FuncRunsSoFar == IF opPc = "func_again" THEN 1 ELSE 0

\* C29: a call of a function wrapped by with_backup executes the function exactly
\* once, whatever the backup step or the function raises, a BackupError raised
\* by the function itself included.
C29_FunctionRunsOnce ==
    [][(opKind = "with_backup" /\ opKind' = "none") => FuncRunsSoFar + 1 = 1]_vars


-----------------------------------------------------------------------------
(* Part 7: MessageBus handlers (agents/shared/message_bus.py) *)

StreamPrefix == "odin:"
\* a channel name as pieces of text; the second one contains the stream prefix
Channels == {<<"tasks">>, <<StreamPrefix, "tasks">>}
MsgTypes == {"task", "event"}
Wildcard == "*"
HandlerIds == {"h1", "h2"}

(* _stream_name *)
StreamName(channel) == <<StreamPrefix>> \o channel
\* _dispatch, line 252: stream.replace(self.stream_prefix, "") drops every occurrence
ChannelOf(stream) == SelectSeq(stream, LAMBDA piece : piece # StreamPrefix)
\* self._handlers.get(key, [])
GetHandlers(key) == IF key \in DOMAIN handlers THEN handlers[key] ELSE <<>>

BusRest == <<lockVars, cliVars, impl, baseline, tree, ckpt, logLen, bdir, agentDir, legacyDir,
             opKind, opPc, opCaller, opRec, opTarget, opSafety, opTodo, opErrs>>

(* subscribe(channel, handler, message_type) *)
Subscribe(channel, h, mt) ==
    /\ impl = "bus"
    /\ Len(subscriptions) < MaxSubs
    /\ LET key == <<channel, mt>>
       IN handlers' = [k \in DOMAIN handlers \cup {key} |->
                          IF k = key THEN Append(GetHandlers(key), h) ELSE handlers[k]]
    /\ subscriptions' = Append(subscriptions, <<channel, mt, h>>)
    /\ UNCHANGED <<BusRest, now, result>>

(* consume delivers one message read from a stream: _dispatch(stream, message).
   The list _handlers.get(key, []) returns is the table's own list when the key is
   present, and extend() changes it in place *)
Dispatch(stream, type) ==
    /\ impl = "bus"
    /\ now.n < MaxOps
    /\ LET key == <<ChannelOf(stream), type>>
           wildcard_key == <<ChannelOf(stream), Wildcard>>
           invoked == GetHandlers(key) \o GetHandlers(wildcard_key)
       IN /\ handlers' = IF key \in DOMAIN handlers
                         THEN [handlers EXCEPT ![key] = invoked]
                         ELSE handlers
          /\ result' = [kind |-> "dispatch", stream |-> stream, type |-> type,
                        invoked |-> invoked]
    /\ now' = [now EXCEPT !.n = @ + 1]
    /\ UNCHANGED <<BusRest, subscriptions>>

BusInit ==
    /\ LockInit /\ OpInit /\ EmptyStore
    /\ lockFile = NoFile
    /\ impl = "bus"
    /\ baseline = Null
    /\ handlers = NoHandlers /\ subscriptions = <<>>
    /\ ckpt = MissingCkpt
    /\ legacyDir = NoLegacy

BusNext ==
    \/ \E channel \in Channels, h \in HandlerIds, mt \in MsgTypes \cup {Wildcard} :
          Subscribe(channel, h, mt)
    \/ \E channel \in Channels, type \in MsgTypes : Dispatch(StreamName(channel), type)

SpecBus == BusInit /\ [][BusNext]_vars

-----------------------------------------------------------------------------
(* Properties of message delivery *)

\* subscriptions of handler h that match a message of the given type on the channel
Matching(channel, type, h) ==
    {i \in DOMAIN subscriptions :
        /\ subscriptions[i][1] = channel
        /\ subscriptions[i][2] \in {type, Wildcard}
        /\ subscriptions[i][3] = h}
Invocations(invoked, h) == {i \in DOMAIN invoked : invoked[i] = h}

\* C30: over any sequence of subscriptions and deliveries, delivering one message
\* invokes each handler once per subscription of it that matches the message's
\* channel and type (the type itself or the wildcard), and the delivery leaves
\* the handler table unchanged.
C30_DeliveryOncePerSubscription ==
    [][\A channel \in Channels, type \in MsgTypes :
          Dispatch(StreamName(channel), type) =>
              /\ handlers' = handlers
              /\ \A h \in HandlerIds :
                    Cardinality(Invocations(result'.invoked, h))
                        = Cardinality(Matching(channel, type, h))]_vars

====
